---------------------------- MODULE Spec2Model ----------------------------
(***************************************************************************)
(* GAME matcher: the chunked tournament of process_request_with_chunking   *)
(* (llm_matcher_v2/ollama_matcher.py, copied verbatim in                   *)
(* rest_llm_matcher/ollama_matcher.py) and the two front ends that call    *)
(* it, the framed connection session (matcher_server.py) and the REST      *)
(* endpoint (matcher_rest_api.py).                                         *)
(*                                                                         *)
(* The oracle (the LLM chain) is an external, unreliable function: every   *)
(* call draws its response from Responses.  One step of the model is the   *)
(* code between two oracle calls or two loop heads.                        *)
(*                                                                         *)
(* Spec is the matcher with an abstract front end.  SessionSpec is the     *)
(* framed server, byte by byte: run_matcher's accept loop and the request  *)
(* loop of handle_client, with the matcher reduced to its outcomes.        *)
(* ReplaySpec calls the matcher twice against a deterministic oracle and   *)
(* logs the oracle calls.  RestSpec is the REST endpoint, request after    *)
(* request, with the exception path of perform_match.                      *)
(***************************************************************************)
EXTENDS Integers, Sequences, FiniteSets, TLC

(***************************************************************************)
(* Bounds of the model.                                                    *)
(***************************************************************************)
\* candidate lists of up to MaxShort entries are enumerated exhaustively
MaxShort == 3
\* longest candidate list (lists longer than MaxShort are round-robin lists)
MaxLen == 5
\* list_chunk_size ranges over 1..MaxK
MaxK == 2
\* cap on the oracle calls of one category (the loop of a chunk size of 1 is unbounded)
MaxCalls == 8

(***************************************************************************)
(* Python values: None and str.                                            *)
(***************************************************************************)
PyNone == [t |-> "None", s |-> ""]

PyStr(x) == [t |-> "str", s |-> x]

\* bool(v) of a value that is None or a str
Truthy(v) == v.t = "str" /\ v.s # ""

MATCHER_VERSION == "2.0"

\* every string of the model, in code point order (the order of sorted())
StrOrder == <<"", "NULL", "a", "b", "c", "zz">>

\* the strings candidate lists are made of
Alphabet == {"a", "b", "c"}

\* the strings an oracle answer can carry: candidates, the decline word, the
\* empty string and a string no candidate list holds
AnswerStrings == Alphabet \cup {"NULL", "", "zz"}

Rank(x) == CHOOSE r \in 1..Len(StrOrder) : StrOrder[r] = x

Elems(q) == {q[j] : j \in 1..Len(q)}

Min(x, y) == IF x <= y THEN x ELSE y

(***************************************************************************)
(* Keys of the request and result documents.                               *)
(***************************************************************************)
possible_prefixes == <<"cell_type", "binding_molecule", "species">>

Prefixes == Elems(possible_prefixes)

\* f"{prefix}_actual"
ActualKey(prefix) ==
    CASE prefix = "cell_type" -> "cell_type_actual"
      [] prefix = "binding_molecule" -> "binding_molecule_actual"
      [] prefix = "species" -> "species_actual"

ActualKeys == {ActualKey(p) : p \in Prefixes}

(***************************************************************************)
(* The request document.  request_data[prefix] tells whether the keys      *)
(* <prefix>_requested and <prefix>_list are in the document and what they  *)
(* hold; a list that is a bare string holds it as its one item.            *)
(***************************************************************************)
Pair(has_requested, requested, has_list, bare, items) ==
    [has_requested |-> has_requested, requested |-> requested,
     has_list |-> has_list, bare |-> bare, items |-> items]

AbsentPair == Pair(FALSE, "", FALSE, FALSE, <<>>)

\* a round-robin list of n candidates, not sorted, with repeats once n > 3
Cycle(n) == [j \in 1..n |-> StrOrder[5 - ((j - 1) % 3)]]

SeqsUpTo(n) == UNION {[1..m -> Alphabet] : m \in 0..n}

\* the pairs of a request that carries several categories: a key without its
\* partner, an empty query, an empty list, and lists of one and two candidates
JobPairs ==
    {AbsentPair,
     Pair(TRUE, "q", FALSE, FALSE, <<>>),
     Pair(FALSE, "", TRUE, FALSE, <<"a">>),
     Pair(TRUE, "", TRUE, FALSE, <<"a">>)}
    \cup {Pair(TRUE, "q", TRUE, FALSE, Cycle(n)) : n \in 0..2}

\* the pairs of a request that carries one category
RichPairs ==
    {Pair(TRUE, "q", TRUE, FALSE, l) : l \in SeqsUpTo(MaxShort) \ {<<>>}}
    \cup {Pair(TRUE, "q", TRUE, FALSE, Cycle(n)) : n \in (MaxShort + 1)..MaxLen}
    \cup {Pair(TRUE, "q", TRUE, TRUE, <<"a">>)}

Requests ==
    [Prefixes -> JobPairs]
    \cup {[p \in Prefixes |-> IF p = one THEN pair ELSE AbsentPair] :
            one \in Prefixes, pair \in RichPairs}

(***************************************************************************)
(* The oracle: what current_chain.invoke returns or raises.                *)
(*   raise       the call raises (oracle unreachable)                      *)
(*   not_json    the text is not JSON                                      *)
(*   not_object  the text is JSON but not an object                        *)
(*   no_key      a JSON object without the <prefix>_actual key             *)
(*   null        a JSON object whose <prefix>_actual is null               *)
(*   string      a JSON object whose <prefix>_actual is the string value   *)
(***************************************************************************)
Responses ==
    [kind : {"raise", "not_json", "not_object", "no_key", "null"}, value : {""}]
    \cup [kind : {"string"}, value : AnswerStrings]

NoResponse == [kind |-> "none", value |-> ""]

VARIABLES
    frontend,            \* "framed" (handle_client) or "rest" (perform_match)
    request_data,        \* the request document
    list_chunk_size,     \* K
    pc,                  \* position of the job
    prefix_idx,          \* position of `for prefix in possible_prefixes`
    chunks,              \* the chunks of the round being played
    i,                   \* the next chunk of the round, from 1
    chunk_champions,     \* winners of round 0
    new_chunk_champions, \* winners of the championship round being played
    unique_champions,    \* sorted, duplicate-free winners of the last round
    final_answer,
    llm_response,        \* the oracle's response to the last call
    response_data,       \* the result document being built
    sent,                \* the document the front end answered with
    oracle_calls,        \* per category: oracle calls made so far
    round_sizes,         \* per category: size of the list each chunk round split
    final_size           \* per category: unique champions left after the chunk rounds, -1 before

\* the framed server: run_matcher and the connection session handle_client
VARIABLES
    at,                  \* where the server is: blocked in "accept", "recv_prefix",
                         \* "recv_payload", "invoke", "send_prefix", "send_payload";
                         \* "returned" when handle_client has returned; "stopped"
                         \* once run_matcher has closed the listening socket
    backlog,             \* clients that connected and wait for accept()
    wire,                \* the bytes the peer of the session sends, in order
    peer_end,            \* what the peer does after them: "close", "reset" or "idle"
    rd,                  \* bytes of wire the session has received
    connection_active,
    msglen,
    data_recv,
    response_bytes,
    outbuf,              \* the bytes written to client_socket
    closes,              \* calls of client_socket.close()
    loaded,              \* the payloads handed to json.loads, in order
    dispatched,          \* calls of process_request_with_chunking
    written              \* the response_bytes both sendall calls returned for, in order

\* process_request_with_chunking called twice against one deterministic oracle
VARIABLES
    run,                 \* 0 when no replay is played, else the run being played: 1 or 2
    kept,                \* the categories whose pair and oracle are the same in run 2
    memo,                \* the oracle: the response fixed for each <<prefix, offered list>>
    calls,               \* the oracle calls of the run being played, in order
    first                \* run 1: its request, its calls and the document it returned

\* the REST service: perform_match and the MatcherLogicError handler
VARIABLES
    status,              \* HTTP status of the response to the request, 0 before it
    content,             \* content of the response
    raised_exc,          \* the exception process_request_with_chunking raised, "none" if none
    answered             \* statuses of the responses to the requests before this one

matcherVars == <<frontend, request_data, list_chunk_size, pc, prefix_idx, chunks, i,
                 chunk_champions, new_chunk_champions, unique_champions, final_answer,
                 llm_response, response_data, sent, oracle_calls, round_sizes,
                 final_size>>

sessionVars == <<at, backlog, wire, peer_end, rd, connection_active, msglen,
                 data_recv, response_bytes, outbuf, closes, loaded, dispatched,
                 written>>

replayVars == <<run, kept, memo, calls, first>>

restVars == <<status, content, raised_exc, answered>>

vars == <<frontend, request_data, list_chunk_size, pc, prefix_idx, chunks, i,
          chunk_champions, new_chunk_champions, unique_champions, final_answer,
          llm_response, response_data, sent, oracle_calls, round_sizes, final_size,
          at, backlog, wire, peer_end, rd, connection_active, msglen,
          data_recv, response_bytes, outbuf, closes, loaded, dispatched, written,
          run, kept, memo, calls, first, status, content, raised_exc, answered>>

\* the framed server before run_matcher has accepted a connection
NoSession ==
    /\ wire = <<>>
    /\ peer_end = "idle"
    /\ rd = 0
    /\ connection_active = FALSE
    /\ msglen = 0
    /\ data_recv = <<>>
    /\ response_bytes = <<>>
    /\ outbuf = <<>>
    /\ closes = 0
    /\ loaded = <<>>
    /\ dispatched = 0
    /\ written = <<>>

Listening ==
    /\ at = "accept"
    /\ backlog = 0
    /\ NoSession

EmptyDoc == [k \in {} |-> PyNone]

\* no replay is played
NoReplay ==
    /\ run = 0
    /\ kept = {}
    /\ memo = <<>>
    /\ calls = <<>>
    /\ first = <<>>

\* the REST service of the abstract model has taken no request
NoRest ==
    /\ status = 0
    /\ content = EmptyDoc
    /\ raised_exc = "none"
    /\ answered = <<>>

Init ==
    /\ frontend \in {"framed", "rest"}
    /\ request_data \in Requests
    /\ list_chunk_size \in 1..MaxK
    /\ pc = "received"
    /\ prefix_idx = 1
    /\ chunks = <<>>
    /\ i = 1
    /\ chunk_champions = <<>>
    /\ new_chunk_champions = <<>>
    /\ unique_champions = <<>>
    /\ final_answer = PyStr("NULL")
    /\ llm_response = NoResponse
    /\ response_data = EmptyDoc
    /\ sent = EmptyDoc
    /\ oracle_calls = [p \in Prefixes |-> 0]
    /\ round_sizes = [p \in Prefixes |-> <<>>]
    /\ final_size = [p \in Prefixes |-> -1]
    /\ Listening
    /\ NoReplay
    /\ NoRest


(***************************************************************************)
(* Pure parts of process_request_with_chunking.                            *)
(***************************************************************************)
\* PairPresent that looks for the requested key alone
PairPresentRequestedOnly(pair) == pair.has_requested

\* `requested_key in request_data and list_key in request_data`
PairPresent(pair) == pair.has_requested /\ pair.has_list

\* SkipPair that tests the input term alone
SkipPairTermOnly(pair) == ~Truthy(PyStr(pair.requested))

\* `not input_term or not choices_list`
SkipPair(pair) == ~Truthy(PyStr(pair.requested)) \/ (~pair.bare /\ pair.items = <<>>)

\* a bare string becomes a one-element list; a list is kept
NormalizeChoices(pair) == IF pair.bare THEN <<pair.items[1]>> ELSE pair.items

\* range(0, n, step)
RangeStarts(n, step) == {j \in 0..(n - 1) : j % step = 0}

\* Chunks that offers every candidate alone, whatever K is
ChunksOfOne(l, K) == [c \in 1..Len(l) |-> <<l[c]>>]

\* Chunks with slices l[i:i + K + 1], one candidate longer than K
ChunksOffByOne(l, K) ==
    [c \in 1..Cardinality(RangeStarts(Len(l), K)) |->
        SubSeq(l, (c - 1) * K + 1, Min(c * K + 1, Len(l)))]

\* Chunks cut from the right, so that the short chunk is the first one
ChunksShortFirst(l, K) ==
    LET n == Cardinality(RangeStarts(Len(l), K))
        r == Len(l) - (n - 1) * K
    IN [c \in 1..n |->
           IF c = 1 THEN SubSeq(l, 1, r)
           ELSE SubSeq(l, r + (c - 2) * K + 1, r + (c - 1) * K)]

\* Chunks that drops a last chunk of fewer than K candidates
ChunksFullOnly(l, K) ==
    [c \in 1..(Len(l) \div K) |-> SubSeq(l, (c - 1) * K + 1, c * K)]

\* [l[i:i + K] for i in range(0, len(l), K)]
Chunks(l, K) ==
    [c \in 1..Cardinality(RangeStarts(Len(l), K)) |->
        SubSeq(l, (c - 1) * K + 1, Min(c * K, Len(l)))]

RECURSIVE SortedList(_)
\* the elements of S in ascending order, each once
SortedList(S) ==
    IF S = {} THEN <<>>
    ELSE LET m == CHOOSE x \in S : \A y \in S : Rank(x) <= Rank(y)
         IN <<m>> \o SortedList(S \ {m})

RECURSIVE Orders(_)
\* the sequences that hold every element of S once
Orders(S) ==
    IF S = {} THEN {<<>>}
    ELSE UNION {{<<x>> \o q : q \in Orders(S \ {x})} : x \in S}

\* ListOfSet without set(): the winners as they are, repeats included
ListOfSetKeepsRepeats(champions) == {champions}

\* list(set(champions)): the distinct winners, in an order that the
\* interpreter's string hashing decides
ListOfSet(champions) == Orders(Elems(champions))

RECURSIVE Insert(_, _)
Insert(x, l) ==
    IF l = <<>> THEN <<x>>
    ELSE IF Rank(x) <= Rank(Head(l)) THEN <<x>> \o l
    ELSE <<Head(l)>> \o Insert(x, Tail(l))

\* Sorted that leaves the list in the order it came in
SortedKeepsOrder(l) == l

RECURSIVE Sorted(_)
\* sorted(l)
Sorted(l) == IF l = <<>> THEN <<>> ELSE Insert(Head(l), Sorted(Tail(l)))

\* sorted(list(set(champions))): the values the expression can take
UniqueChampions(champions) == {Sorted(l) : l \in ListOfSet(champions)}

\* the exception the try block raises on a response, "none" when it raises none
RaisedBy(resp) ==
    CASE resp.kind = "raise" -> "Exception"
      [] resp.kind = "not_json" -> "JSONDecodeError"
      [] resp.kind = "not_object" -> "AttributeError"
      [] OTHER -> "none"

\* an except clause that names json.JSONDecodeError alone
CaughtJsonOnly(exc) == exc = "JSONDecodeError"

\* `except (json.JSONDecodeError, AttributeError, Exception)`
Caught(exc) == exc \in {"JSONDecodeError", "AttributeError", "Exception"}

\* response_json.get(actual_key, "NULL")
Match(resp) ==
    CASE resp.kind = "no_key" -> PyStr("NULL")
      [] resp.kind = "null" -> PyNone
      [] OTHER -> PyStr(resp.value)

\* IsChampion without the test `match in chunk`
IsChampionAnyString(match, chunk) ==
    /\ Truthy(match)
    /\ match # PyStr("NULL")

\* `match and match != "NULL"` and `match in chunk`
IsChampion(match, chunk) ==
    /\ Truthy(match)
    /\ match # PyStr("NULL")
    /\ match.s \in Elems(chunk)

\* WithWinner that appends the answer of every call that parsed
WithWinnerUnchecked(champions, resp, chunk) ==
    IF RaisedBy(resp) = "none" /\ Truthy(Match(resp)) /\ Match(resp) # PyStr("NULL")
    THEN Append(champions, Match(resp).s)
    ELSE champions

\* WithWinner that keeps every candidate of a chunk whose call gave no winner
WithWinnerKeepsChunkOnFailure(champions, resp, chunk) ==
    IF RaisedBy(resp) = "none" /\ IsChampion(Match(resp), chunk)
    THEN Append(champions, Match(resp).s)
    ELSE champions \o chunk

\* the winners of a round after the response to one chunk
WithWinner(champions, resp, chunk) ==
    IF RaisedBy(resp) = "none" /\ IsChampion(Match(resp), chunk)
    THEN Append(champions, Match(resp).s)
    ELSE champions

\* FinalAnswer without the final validation `final_answer not in unique_champions`
FinalAnswerUnvalidated(resp, champions) ==
    IF RaisedBy(resp) # "none" THEN PyStr("NULL") ELSE Match(resp)

\* FinalAnswer that falls back on the first champion when the final call
\* names none
FinalAnswerFirstChampionOnFailure(resp, champions) ==
    IF RaisedBy(resp) = "none" /\ Match(resp).t = "str"
       /\ Match(resp).s \in Elems(champions)
    THEN Match(resp)
    ELSE PyStr(champions[1])

\* final_answer after the final call over the champions
FinalAnswer(resp, champions) ==
    IF RaisedBy(resp) # "none" THEN PyStr("NULL")
    ELSE IF Match(resp).t = "str" /\ Match(resp).s \in Elems(champions)
         THEN Match(resp)
         ELSE PyStr("NULL")

\* NeedsFinalCall that asks for the final oracle call whatever the champions
NeedsFinalCallAlways(u) == TRUE

\* NeedsFinalCall with `>= 1` for `> 1`
NeedsFinalCallFromOne(u) == Len(u) >= 1

\* `elif len(unique_champions) > 1`: the final oracle call is needed
NeedsFinalCall(u) == Len(u) > 1

\* DirectAnswer with final_answer initialised to None, not to "NULL"
DirectAnswerNoneByDefault(u) == IF Len(u) = 1 THEN PyStr(u[1]) ELSE PyNone

\* final_answer when no final call is made: the one champion, else "NULL"
DirectAnswer(u) == IF Len(u) = 1 THEN PyStr(u[1]) ELSE PyStr("NULL")

\* NextChunk that offers the same chunk again after a call that raised
NextChunkRetriesRaise(j, resp) == IF resp.kind = "raise" THEN j ELSE j + 1

\* `for chunk in chunks`: the chunk offered after chunk j, whatever the
\* response to the call for chunk j was
NextChunk(j, resp) == j + 1

\* NewChampions that starts round 0 with the winners left by the category
\* played before
NewChampionsCarriedOver(previous) == previous

\* `chunk_champions = []` at the start of round 0
NewChampions(previous) == <<>>

\* response_data[key] = value
SetItem(doc, key, value) ==
    [k \in DOMAIN doc \cup {key} |-> IF k = key THEN value ELSE doc[k]]

(***************************************************************************)
(* The front ends.                                                         *)
(***************************************************************************)
\* MatcherRequest: field types, check_paired_fields, check_at_least_one_pair
RestValid(req) ==
    /\ \A p \in Prefixes : req[p].has_list => ~req[p].bare
    /\ \A p \in Prefixes :
          req[p].has_requested => (req[p].has_list /\ req[p].items # <<>>)
    /\ \E p \in Prefixes : req[p].has_requested /\ req[p].requested # ""

\* a response model that turns the string "NULL" into None
MatcherResponseNullAsNone(doc) ==
    [k \in ActualKeys \cup {"matcher_version"} |->
        IF k \in DOMAIN doc /\ doc[k] # PyStr("NULL") THEN doc[k] ELSE PyNone]

\* MatcherResponse(**response_data): every field, None where not given
MatcherResponse(doc) ==
    [k \in ActualKeys \cup {"matcher_version"} |->
        IF k \in DOMAIN doc THEN doc[k] ELSE PyNone]

\* request.model_dump(exclude_unset=True) of a request MatcherRequest
\* accepted: the keys the request set, a list under every list key
ModelDump(req) ==
    [p \in Prefixes |->
        Pair(req[p].has_requested,
             IF req[p].has_requested THEN req[p].requested ELSE "",
             req[p].has_list,
             FALSE,
             IF req[p].has_list THEN req[p].items ELSE <<>>)]

\* the front end takes the request: handle_client hands every parsed payload
\* to the matcher, perform_match only a request MatcherRequest accepts, as
\* the dictionary model_dump makes of it
DoReceive ==
    /\ pc = "received"
    /\ IF frontend = "rest"
       THEN IF RestValid(request_data)
            THEN /\ pc' = "for"
                 /\ request_data' = ModelDump(request_data)
            ELSE /\ pc' = "rejected"
                 /\ UNCHANGED request_data
       ELSE /\ pc' = "for"
            /\ UNCHANGED request_data
    /\ UNCHANGED <<frontend, list_chunk_size, prefix_idx, chunks, i,
                   chunk_champions, new_chunk_champions, unique_champions,
                   final_answer, llm_response, response_data, sent, oracle_calls,
                   round_sizes, final_size>>

Receive == DoReceive /\ UNCHANGED <<sessionVars, replayVars, restVars>>

\* the front end answers with the result document
DoRespond ==
    /\ pc = "returned"
    /\ pc' = "responded"
    /\ sent' = IF frontend = "rest" THEN MatcherResponse(response_data) ELSE response_data
    /\ UNCHANGED <<frontend, request_data, list_chunk_size, prefix_idx, chunks, i,
                   chunk_champions, new_chunk_champions, unique_champions,
                   final_answer, llm_response, response_data, oracle_calls,
                   round_sizes, final_size>>

Respond == DoRespond /\ UNCHANGED <<sessionVars, replayVars, restVars>>

(***************************************************************************)
(* process_request_with_chunking.                                          *)
(***************************************************************************)
prefix == possible_prefixes[prefix_idx]

\* one pass of `for prefix in possible_prefixes` up to the first oracle call
DoBeginPrefix ==
    /\ pc = "for"
    /\ prefix_idx <= Len(possible_prefixes)
    /\ LET pair == request_data[prefix] IN
       IF ~PairPresent(pair)
       THEN /\ prefix_idx' = prefix_idx + 1
            /\ UNCHANGED <<pc, chunks, i, chunk_champions, response_data, round_sizes>>
       ELSE IF SkipPair(pair)
       THEN /\ response_data' = SetItem(response_data, ActualKey(prefix), PyNone)
            /\ prefix_idx' = prefix_idx + 1
            /\ UNCHANGED <<pc, chunks, i, chunk_champions, round_sizes>>
       ELSE /\ chunks' = Chunks(NormalizeChoices(pair), list_chunk_size)
            /\ chunk_champions' = NewChampions(chunk_champions)
            /\ i' = 1
            /\ pc' = "round0"
            /\ round_sizes' =
                  [round_sizes EXCEPT ![prefix] = <<Len(NormalizeChoices(pair))>>]
            /\ UNCHANGED <<prefix_idx, response_data>>
    /\ UNCHANGED <<frontend, request_data, list_chunk_size, new_chunk_champions,
                   unique_champions, final_answer, llm_response, sent, oracle_calls,
                   final_size>>

\* one oracle call of round 0 and the handling of its response
DoRound0Call(resp) ==
    /\ pc = "round0"
    /\ i <= Len(chunks)
    /\ oracle_calls[prefix] < MaxCalls
    /\ llm_response' = resp
    /\ IF Caught(RaisedBy(resp)) \/ RaisedBy(resp) = "none"
       THEN /\ chunk_champions' = WithWinner(chunk_champions, resp, chunks[i])
            /\ i' = NextChunk(i, resp)
            /\ pc' = pc
       ELSE /\ pc' = "raised"
            /\ UNCHANGED <<chunk_champions, i>>
    /\ oracle_calls' = [oracle_calls EXCEPT ![prefix] = @ + 1]
    /\ UNCHANGED <<frontend, request_data, list_chunk_size, prefix_idx, chunks,
                   new_chunk_champions, unique_champions, final_answer,
                   response_data, sent, round_sizes, final_size>>

\* one oracle call of a championship round and the handling of its response
DoChampionshipCall(resp) ==
    /\ pc = "championship"
    /\ i <= Len(chunks)
    /\ oracle_calls[prefix] < MaxCalls
    /\ llm_response' = resp
    /\ IF Caught(RaisedBy(resp)) \/ RaisedBy(resp) = "none"
       THEN /\ new_chunk_champions' =
                  WithWinner(new_chunk_champions, resp, chunks[i])
            /\ i' = NextChunk(i, resp)
            /\ pc' = pc
       ELSE /\ pc' = "raised"
            /\ UNCHANGED <<new_chunk_champions, i>>
    /\ oracle_calls' = [oracle_calls EXCEPT ![prefix] = @ + 1]
    /\ UNCHANGED <<frontend, request_data, list_chunk_size, prefix_idx, chunks,
                   chunk_champions, unique_champions, final_answer,
                   response_data, sent, round_sizes, final_size>>

\* the while test over the champions u of the round that ended, and either the
\* start of the next championship round or the final decision
AfterRound(u) ==
    /\ unique_champions' = u
    /\ IF Len(u) > list_chunk_size
       THEN /\ chunks' = Chunks(u, list_chunk_size)
            /\ new_chunk_champions' = <<>>
            /\ i' = 1
            /\ pc' = "championship"
            /\ round_sizes' = [round_sizes EXCEPT ![prefix] = Append(@, Len(u))]
            /\ UNCHANGED <<prefix_idx, final_answer, response_data, final_size>>
       ELSE /\ final_size' = [final_size EXCEPT ![prefix] = Len(u)]
            /\ IF NeedsFinalCall(u)
               THEN /\ final_answer' = PyStr("NULL")
                    /\ pc' = "final"
                    /\ UNCHANGED <<prefix_idx, response_data>>
               ELSE /\ final_answer' = DirectAnswer(u)
                    /\ response_data' = SetItem(response_data, ActualKey(prefix), final_answer')
                    /\ prefix_idx' = prefix_idx + 1
                    /\ pc' = "for"
            /\ UNCHANGED <<chunks, new_chunk_champions, i, round_sizes>>

\* round 0 is over: its winners are deduplicated and sorted
DoEndRound0 ==
    /\ pc = "round0"
    /\ i > Len(chunks)
    /\ \E u \in UniqueChampions(chunk_champions) : AfterRound(u)
    /\ UNCHANGED <<frontend, request_data, list_chunk_size, chunk_champions,
                   llm_response, sent, oracle_calls>>

\* a championship round is over: its winners are deduplicated and sorted
DoEndChampionshipRound ==
    /\ pc = "championship"
    /\ i > Len(chunks)
    /\ \E u \in UniqueChampions(new_chunk_champions) : AfterRound(u)
    /\ UNCHANGED <<frontend, request_data, list_chunk_size, chunk_champions,
                   llm_response, sent, oracle_calls>>

\* the final oracle call over 2..K champions; its answer is recorded
DoFinalCall(resp) ==
    /\ pc = "final"
    /\ oracle_calls[prefix] < MaxCalls
    /\ llm_response' = resp
    /\ IF Caught(RaisedBy(resp)) \/ RaisedBy(resp) = "none"
       THEN /\ final_answer' = FinalAnswer(resp, unique_champions)
            /\ response_data' = SetItem(response_data, ActualKey(prefix), final_answer')
            /\ prefix_idx' = prefix_idx + 1
            /\ pc' = "for"
       ELSE /\ pc' = "raised"
            /\ UNCHANGED <<final_answer, response_data, prefix_idx>>
    /\ oracle_calls' = [oracle_calls EXCEPT ![prefix] = @ + 1]
    /\ UNCHANGED <<frontend, request_data, list_chunk_size, chunks, i,
                   chunk_champions, new_chunk_champions, unique_champions, sent,
                   round_sizes, final_size>>

\* after the last prefix: the version key is added and the document returned
DoReturn ==
    /\ pc = "for"
    /\ prefix_idx > Len(possible_prefixes)
    /\ response_data' = SetItem(response_data, "matcher_version", PyStr(MATCHER_VERSION))
    /\ pc' = "returned"
    /\ UNCHANGED <<frontend, request_data, list_chunk_size, prefix_idx, chunks, i,
                   chunk_champions, new_chunk_champions, unique_champions,
                   final_answer, llm_response, sent, oracle_calls, round_sizes,
                   final_size>>

(***************************************************************************)
(* The job of one request, whatever the oracle answers.                    *)
(***************************************************************************)
BeginPrefix == DoBeginPrefix /\ UNCHANGED <<sessionVars, replayVars, restVars>>

Round0Call ==
    /\ \E resp \in Responses : DoRound0Call(resp)
    /\ UNCHANGED <<sessionVars, replayVars, restVars>>

EndRound0 == DoEndRound0 /\ UNCHANGED <<sessionVars, replayVars, restVars>>

ChampionshipCall ==
    /\ \E resp \in Responses : DoChampionshipCall(resp)
    /\ UNCHANGED <<sessionVars, replayVars, restVars>>

EndChampionshipRound ==
    DoEndChampionshipRound /\ UNCHANGED <<sessionVars, replayVars, restVars>>

FinalCall ==
    /\ \E resp \in Responses : DoFinalCall(resp)
    /\ UNCHANGED <<sessionVars, replayVars, restVars>>

Return == DoReturn /\ UNCHANGED <<sessionVars, replayVars, restVars>>

Next ==
    \/ Receive
    \/ BeginPrefix
    \/ Round0Call
    \/ EndRound0
    \/ ChampionshipCall
    \/ EndChampionshipRound
    \/ FinalCall
    \/ Return
    \/ Respond

Spec == Init /\ [][Next]_vars

(***************************************************************************)
(* The framed server (matcher_server.py).  Bytes are numbers 0..255.  One  *)
(* step of the model is the code between two blocking calls: accept, recv, *)
(* the oracle call inside process_request_with_chunking, sendall.          *)
(***************************************************************************)
\* clients that wait in the listen queue at once
MaxBacklog == 1
\* complete frames a peer sends on one connection
MaxFrames == 2

BUFFER_SIZE == 65536

\* the 4-byte big-endian length prefix a peer puts before a payload of n bytes
LengthPrefix(n) == <<0, 0, n \div 256, n % 256>>

\* the bytes of {"species_requested": "q", "species_list": ["a"]}
JobDocument ==
    <<123, 34, 115, 112, 101, 99, 105, 101, 115, 95, 114, 101, 113, 117,
      101, 115, 116, 101, 100, 34, 58, 32, 34, 113, 34, 44, 32, 34, 115,
      112, 101, 99, 105, 101, 115, 95, 108, 105, 115, 116, 34, 58, 32, 91,
      34, 97, 34, 93, 125>>

\* json.dumps of {"matcher_version": "2.0"}
VersionOnlyBytes ==
    <<123, 34, 109, 97, 116, 99, 104, 101, 114, 95, 118, 101, 114, 115,
      105, 111, 110, 34, 58, 32, 34, 50, 46, 48, 34, 125>>

\* json.dumps of {"species_actual": "a", "matcher_version": "2.0"}
MatchedBytes ==
    <<123, 34, 115, 112, 101, 99, 105, 101, 115, 95, 97, 99, 116, 117, 97,
      108, 34, 58, 32, 34, 97, 34, 44, 32, 34, 109, 97, 116, 99, 104, 101,
      114, 95, 118, 101, 114, 115, 105, 111, 110, 34, 58, 32, 34, 50, 46,
      48, 34, 125>>

\* json.dumps of {"species_actual": "NULL", "matcher_version": "2.0"}
NoMatchBytes ==
    <<123, 34, 115, 112, 101, 99, 105, 101, 115, 95, 97, 99, 116, 117, 97,
      108, 34, 58, 32, 34, 78, 85, 76, 76, 34, 44, 32, 34, 109, 97, 116,
      99, 104, 101, 114, 95, 118, 101, 114, 115, 105, 111, 110, 34, 58, 32,
      34, 50, 46, 48, 34, 125>>

\* the bytes of {}
EmptyObject == <<123, 125>>

\* the bytes of []
ArrayDocument == <<91, 93>>

\* the bytes of 5
NumberDocument == <<53>>

\* the byte x, which is no JSON text
NotJson == <<120>>

\* the byte FF, which is no UTF-8 text
BadUtf8 == <<255>>

\* the payloads a peer frames; the last is the payload of a frame of length 0
ClientDocuments ==
    {EmptyObject, JobDocument, ArrayDocument, NumberDocument, NotJson, BadUtf8, <<>>}

\* the payloads of the frames a peer sends before its last frame
EarlierDocuments == {JobDocument, EmptyObject, NotJson}

\* up to n complete frames of earlier documents, one after the other
RECURSIVE EarlierStreams(_)
EarlierStreams(n) ==
    IF n = 0 THEN {<<>>}
    ELSE EarlierStreams(n - 1)
         \cup {LengthPrefix(Len(d)) \o d \o rest :
                 d \in EarlierDocuments, rest \in EarlierStreams(n - 1)}

\* up to n complete frames, one after the other
Streams(n) ==
    {earlier \o last :
        earlier \in EarlierStreams(n - 1),
        last \in {<<>>} \cup {LengthPrefix(Len(d)) \o d : d \in ClientDocuments}}

\* what a peer sends after its complete frames: nothing, half a length prefix,
\* or a prefix of 10 followed by 5 payload bytes
Tails == {<<>>, <<0, 0>>, LengthPrefix(10) \o <<123, 34, 115, 34, 58>>}

Wires == {st \o tail : st \in Streams(MaxFrames), tail \in Tails}

\* after its bytes the peer closes its end, resets the connection, or stays
\* connected without sending
PeerEnds == {"close", "reset", "idle"}

\* struct.pack(">I", n)
PackLittleEndian(n) ==
    <<n % 256, (n \div 256) % 256, (n \div 65536) % 256, (n \div 16777216) % 256>>

Pack(n) ==
    <<(n \div 16777216) % 256, (n \div 65536) % 256, (n \div 256) % 256, n % 256>>

\* struct.unpack('>I', b)[0] of four bytes
Unpack(b) == b[1] * 16777216 + b[2] * 65536 + b[3] * 256 + b[4]

\* the size asked of recv in the payload loop
RecvSizeWholeBuffer(n, have) == BUFFER_SIZE

RecvSize(n, have) == Min(BUFFER_SIZE, n - have)

\* json.loads(data_recv.decode("utf-8")): the kind of value it returns, or the
\* exception it raises
JsonLoads(data) ==
    CASE data = EmptyObject -> "empty_object"
      [] data = JobDocument -> "job"
      [] data = ArrayDocument -> "array"
      [] data = NumberDocument -> "number"
      [] data = BadUtf8 -> "UnicodeDecodeError"
      [] OTHER -> "JSONDecodeError"

LoadFails(value) == value \in {"JSONDecodeError", "UnicodeDecodeError"}

\* process_request_with_chunking(request_data) raises: `in` on a number
DispatchRaises(value) == value = "number"

\* process_request_with_chunking(request_data) calls the oracle: the job
\* document has one category with a query and one candidate
CallsOracle(value) == value = "job"

\* the except clauses of the request loop: which exceptions they catch
HandlerCatchesResetOnly(exc) ==
    exc \in {"ConnectionResetError", "BrokenPipeError", "TypeError", "OSError"}

HandlerCatchesConnectionOnly(exc) ==
    exc \in {"ConnectionError", "ConnectionResetError", "BrokenPipeError"}

HandlerCatches(exc) ==
    exc \in {"ConnectionError", "ConnectionResetError", "BrokenPipeError",
             "struct.error", "TypeError", "OSError"}

\* the finally clause of the request loop: whether it closes client_socket
FinallyClosesNever(active) == FALSE

FinallyClosesAlways(active) == TRUE

FinallyCloses(active) == ~active

\* the finally clause runs, then the loop head `while connection_active`
EndIterationLoops(active) ==
    /\ connection_active' = active
    /\ closes' = closes + (IF FinallyCloses(active) THEN 1 ELSE 0)
    /\ at' = "recv_prefix"

EndIteration(active) ==
    /\ connection_active' = active
    /\ closes' = closes + (IF FinallyCloses(active) THEN 1 ELSE 0)
    /\ at' = IF active THEN "recv_prefix" ELSE "returned"

\* an exception leaves the try block of the request loop: a clause catches it,
\* or it passes the finally clause and ends run_matcher, which closes the
\* listening socket
Raise(exc) ==
    IF HandlerCatches(exc)
    THEN EndIteration(FALSE)
    ELSE /\ at' = "stopped"
         /\ closes' = closes + (IF FinallyCloses(connection_active) THEN 1 ELSE 0)
         /\ UNCHANGED connection_active

\* the payload loop is over: length test, json.loads, the dispatcher up to its
\* oracle call or its return
AfterPayload(n, data) ==
    IF Len(data) # n
    THEN /\ EndIteration(FALSE)
         /\ UNCHANGED <<loaded, dispatched, response_bytes>>
    ELSE /\ loaded' = Append(loaded, data)
         /\ IF LoadFails(JsonLoads(data))
            THEN /\ EndIteration(FALSE)
                 /\ UNCHANGED <<dispatched, response_bytes>>
            ELSE /\ dispatched' = dispatched + 1
                 /\ IF DispatchRaises(JsonLoads(data))
                    THEN /\ Raise("TypeError")
                         /\ UNCHANGED response_bytes
                    ELSE IF CallsOracle(JsonLoads(data))
                    THEN /\ at' = "invoke"
                         /\ UNCHANGED <<connection_active, closes, response_bytes>>
                    ELSE /\ response_bytes' = VersionOnlyBytes
                         /\ at' = "send_prefix"
                         /\ UNCHANGED <<connection_active, closes>>

\* a client connects and waits in the listen queue
ClientConnects ==
    /\ at # "stopped"
    /\ backlog < MaxBacklog
    /\ backlog' = backlog + 1
    /\ UNCHANGED <<at, wire, peer_end, rd, connection_active, msglen,
                   data_recv, response_bytes, outbuf, closes, loaded, dispatched,
                   written>>
    /\ UNCHANGED <<matcherVars, replayVars, restVars>>

\* a server that starts a thread for handle_client and accepts on
AcceptingWhileServing == at # "stopped"

\* run_matcher is at server.accept(): it calls handle_client in its own
\* thread of control and is back at accept() when that call has returned
Accepting == at = "accept"

\* server.accept() returns a connection and handle_client starts on it
AcceptConnection ==
    /\ Accepting
    /\ backlog > 0
    /\ backlog' = backlog - 1
    /\ wire' \in Wires
    /\ peer_end' \in PeerEnds
    /\ rd' = 0
    /\ connection_active' = TRUE
    /\ msglen' = 0
    /\ data_recv' = <<>>
    /\ response_bytes' = <<>>
    /\ outbuf' = <<>>
    /\ closes' = 0
    /\ loaded' = <<>>
    /\ dispatched' = 0
    /\ written' = <<>>
    /\ at' = "recv_prefix"
    /\ UNCHANGED <<matcherVars, replayVars, restVars>>

\* handle_client has returned: `while True` of run_matcher goes back to
\* server.accept(), and nothing is left of the session
NextAccept ==
    /\ at = "returned"
    /\ at' = "accept"
    /\ wire' = <<>>
    /\ peer_end' = "idle"
    /\ rd' = 0
    /\ connection_active' = FALSE
    /\ msglen' = 0
    /\ data_recv' = <<>>
    /\ response_bytes' = <<>>
    /\ outbuf' = <<>>
    /\ closes' = 0
    /\ loaded' = <<>>
    /\ dispatched' = 0
    /\ written' = <<>>
    /\ UNCHANGED backlog
    /\ UNCHANGED <<matcherVars, replayVars, restVars>>

\* server.accept() raises: run_matcher logs it and closes the listening socket
AcceptRaises ==
    /\ at = "accept"
    /\ at' = "stopped"
    /\ UNCHANGED <<backlog, wire, peer_end, rd, connection_active, msglen,
                   data_recv, response_bytes, outbuf, closes, loaded, dispatched,
                   written>>
    /\ UNCHANGED <<matcherVars, replayVars, restVars>>

\* recv(4, MSG_WAITALL) returns or raises, and the code runs on to the next
\* blocking call.  With fewer than 4 bytes to come the call returns only once
\* the peer has closed; a reset can arrive at any time; on a socket that was
\* closed already it raises OSError.
RecvPrefix ==
    /\ at = "recv_prefix"
    /\ IF closes > 0
       THEN /\ Raise("OSError")
            /\ UNCHANGED <<rd, msglen, data_recv, loaded, dispatched, response_bytes>>
       ELSE \/ /\ peer_end = "reset"
               /\ Raise("ConnectionResetError")
               /\ UNCHANGED <<rd, msglen, data_recv, loaded, dispatched,
                              response_bytes>>
            \/ /\ Len(wire) - rd >= 4
               /\ rd' = rd + 4
               /\ msglen' = Unpack(SubSeq(wire, rd + 1, rd + 4))
               /\ data_recv' = <<>>
               /\ IF msglen' = 0
                  THEN AfterPayload(msglen', <<>>)
                  ELSE /\ at' = "recv_payload"
                       /\ UNCHANGED <<connection_active, closes, loaded, dispatched,
                                      response_bytes>>
            \/ /\ Len(wire) - rd < 4
               /\ peer_end = "close"
               /\ rd' = Len(wire)
               /\ IF Len(wire) - rd = 0
                  THEN EndIteration(FALSE)
                  ELSE Raise("struct.error")
               /\ UNCHANGED <<msglen, data_recv, loaded, dispatched, response_bytes>>
    /\ UNCHANGED <<backlog, wire, peer_end, outbuf, written>>
    /\ UNCHANGED <<matcherVars, replayVars, restVars>>

\* one recv of the payload loop returns a packet of any size up to the size
\* asked for, returns b'' once the peer has closed, or raises on a reset
RecvPayload ==
    /\ at = "recv_payload"
    /\ \/ /\ peer_end = "reset"
          /\ Raise("ConnectionResetError")
          /\ UNCHANGED <<rd, data_recv, loaded, dispatched, response_bytes>>
       \/ /\ Len(wire) - rd = 0
          /\ peer_end = "close"
          /\ Raise("ConnectionError")
          /\ UNCHANGED <<rd, data_recv, loaded, dispatched, response_bytes>>
       \/ \E k \in 1..Min(RecvSize(msglen, Len(data_recv)), Len(wire) - rd) :
             /\ rd' = rd + k
             /\ data_recv' = data_recv \o SubSeq(wire, rd + 1, rd + k)
             /\ IF Len(data_recv') < msglen
                THEN UNCHANGED <<at, connection_active, closes, loaded, dispatched,
                                 response_bytes>>
                ELSE AfterPayload(msglen, data_recv')
    /\ UNCHANGED <<backlog, wire, peer_end, msglen, outbuf, written>>
    /\ UNCHANGED <<matcherVars, replayVars, restVars>>

\* the oracle call of the job document returns: the dispatcher ends with the
\* candidate or with "NULL" (every oracle failure ends as "NULL")
OracleReturns ==
    /\ at = "invoke"
    /\ response_bytes' \in {MatchedBytes, NoMatchBytes}
    /\ at' = "send_prefix"
    /\ UNCHANGED <<backlog, wire, peer_end, rd, connection_active, msglen,
                   data_recv, outbuf, closes, loaded, dispatched, written>>
    /\ UNCHANGED <<matcherVars, replayVars, restVars>>

\* what sendall raises when the peer is gone
SendError == IF peer_end = "reset" THEN "ConnectionResetError" ELSE "BrokenPipeError"

\* sendall(struct.pack(">I", len(response_bytes))) returns, or raises after
\* part of the bytes when the peer has closed or reset
SendPrefix ==
    /\ at = "send_prefix"
    /\ \/ /\ outbuf' = outbuf \o Pack(Len(response_bytes))
          /\ at' = "send_payload"
          /\ UNCHANGED <<connection_active, closes>>
       \/ /\ peer_end # "idle"
          /\ \E k \in 0..3 :
                outbuf' = outbuf \o SubSeq(Pack(Len(response_bytes)), 1, k)
          /\ Raise(SendError)
    /\ UNCHANGED <<backlog, wire, peer_end, rd, msglen, data_recv,
                   response_bytes, loaded, dispatched, written>>
    /\ UNCHANGED <<matcherVars, replayVars, restVars>>

\* sendall(response_bytes) returns and the iteration ends, or raises after
\* part of the bytes
SendPayload ==
    /\ at = "send_payload"
    /\ \/ /\ outbuf' = outbuf \o response_bytes
          /\ written' = Append(written, response_bytes)
          /\ EndIteration(TRUE)
       \/ /\ peer_end # "idle"
          /\ \E k \in 0..(Len(response_bytes) - 1) :
                outbuf' = outbuf \o SubSeq(response_bytes, 1, k)
          /\ Raise(SendError)
          /\ UNCHANGED written
    /\ UNCHANGED <<backlog, wire, peer_end, rd, msglen, data_recv,
                   response_bytes, loaded, dispatched>>
    /\ UNCHANGED <<matcherVars, replayVars, restVars>>

\* no job of the detailed matcher model is running
MatcherIdle ==
    /\ frontend = "framed"
    /\ request_data = [p \in Prefixes |-> AbsentPair]
    /\ list_chunk_size = 1
    /\ pc = "received"
    /\ prefix_idx = 1
    /\ chunks = <<>>
    /\ i = 1
    /\ chunk_champions = <<>>
    /\ new_chunk_champions = <<>>
    /\ unique_champions = <<>>
    /\ final_answer = PyStr("NULL")
    /\ llm_response = NoResponse
    /\ response_data = EmptyDoc
    /\ sent = EmptyDoc
    /\ oracle_calls = [p \in Prefixes |-> 0]
    /\ round_sizes = [p \in Prefixes |-> <<>>]
    /\ final_size = [p \in Prefixes |-> -1]

\* run_matcher has bound and listens
SessionInit == MatcherIdle /\ Listening /\ NoReplay /\ NoRest

SessionNext ==
    \/ ClientConnects
    \/ AcceptConnection
    \/ AcceptRaises
    \/ NextAccept
    \/ RecvPrefix
    \/ RecvPayload
    \/ OracleReturns
    \/ SendPrefix
    \/ SendPayload

SessionSpec == SessionInit /\ [][SessionNext]_vars


(***************************************************************************)
(* Properties.                                                             *)
(***************************************************************************)
HasBothKeys(p) == request_data[p].has_requested /\ request_data[p].has_list

EmptyQueryOrList(p) ==
    \/ request_data[p].requested = ""
    \/ (~request_data[p].bare /\ request_data[p].items = <<>>)

\* the category goes through the tournament
Entered(p) == HasBothKeys(p) /\ ~EmptyQueryOrList(p)

Recorded(p) == ActualKey(p) \in DOMAIN response_data

Result(p) == response_data[ActualKey(p)]

\* the candidate list of the category as supplied in the request
Candidates(p) ==
    IF request_data[p].bare THEN {request_data[p].items[1]}
    ELSE Elems(request_data[p].items)

\* the step is an oracle call of a chunk round
ChunkCallStep ==
    /\ pc \in {"round0", "championship"}
    /\ i <= Len(chunks)
    /\ oracle_calls' # oracle_calls

\* the step is the final oracle call
FinalCallStep == pc = "final" /\ oracle_calls' # oracle_calls

\* the answer names a value that is not in the list offered
Fabricated(resp, offered) ==
    /\ resp.kind = "string"
    /\ resp.value \notin {"", "NULL"}
    /\ resp.value \notin Elems(offered)

\* C1: whatever the oracle answers, the value recorded under <category>_actual
\* for a category that enters the tournament is the no-match sentinel "NULL"
\* or an element of that category's candidate list.
C1_ResultIsCandidateOrNoMatch ==
    \A p \in Prefixes :
        (Entered(p) /\ Recorded(p)) =>
            \/ Result(p) = PyStr("NULL")
            \/ (Result(p).t = "str" /\ Result(p).s \in Candidates(p))

\* a candidate was recorded after chunk rounds and a final call
C1_Witness ==
    \E p \in Prefixes :
        /\ Entered(p) /\ Recorded(p)
        /\ Result(p).s \in Candidates(p)
        /\ final_size[p] >= 2
        /\ Len(round_sizes[p]) >= 2

\* C2: in round 0 and in every championship round, an answer that is not an
\* element of the chunk offered adds nothing to the round's champions, does
\* not fail the job, and the round goes on with the next chunk.
C2_FabricationDiscardedInChunkRound ==
    [][(ChunkCallStep /\ Fabricated(llm_response', chunks[i])) =>
          /\ chunk_champions' = chunk_champions
          /\ new_chunk_champions' = new_chunk_champions
          /\ unique_champions' = unique_champions
          /\ response_data' = response_data
          /\ chunks' = chunks
          /\ i' = i + 1
          /\ pc' = pc]_vars

\* a championship round just discarded an answer that names a candidate of
\* the next chunk, which is still to be played
C2_Witness ==
    /\ pc = "championship"
    /\ i >= 2 /\ i <= Len(chunks)
    /\ Fabricated(llm_response, chunks[i - 1])
    /\ llm_response.value \in Elems(chunks[i])
    /\ new_chunk_champions = <<>>

\* C3: the final call is made over 2..K champions; the result is its answer
\* when the answer is one of those champions and "NULL" in every other case,
\* and the job goes on.
C3_FinalCallValidated ==
    [][FinalCallStep =>
          /\ Len(unique_champions) >= 2
          /\ Len(unique_champions) <= list_chunk_size
          /\ pc' = "for"
          /\ ActualKey(prefix) \in DOMAIN response_data'
          /\ response_data'[ActualKey(prefix)] =
                IF /\ llm_response'.kind = "string"
                   /\ llm_response'.value \in Elems(unique_champions)
                THEN PyStr(llm_response'.value)
                ELSE PyStr("NULL")]_vars

\* the final call answered with one of the champions, which is the result
C3_Witness ==
    \E p \in Prefixes :
        /\ pc = "for"
        /\ prefix_idx > 1 /\ possible_prefixes[prefix_idx - 1] = p
        /\ Recorded(p)
        /\ final_size[p] >= 2
        /\ llm_response.kind = "string"
        /\ llm_response.value \in Elems(unique_champions)
        /\ Result(p) = PyStr(llm_response.value)

\* the step ends a chunk round
EndRoundStep ==
    /\ pc \in {"round0", "championship"}
    /\ i > Len(chunks)

\* C4: every championship round leaves strictly fewer unique champions than
\* it started with, for every chunk size K >= 1.
C4_ChampionshipRoundShrinks ==
    [][(pc = "championship" /\ i > Len(chunks)) =>
          Len(unique_champions') < Len(unique_champions)]_vars

\* C5: when the chunk rounds end with no unique champion the result is
\* "NULL", with exactly one it is that champion; the result is recorded at
\* once, and no oracle call is made for a category whose result is recorded.
C5_DirectResultWithoutFinalCall ==
    [][/\ EndRoundStep =>
             /\ Elems(unique_champions') =
                   Elems(IF pc = "round0" THEN chunk_champions ELSE new_chunk_champions)
             /\ Len(unique_champions') <= 1 =>
                   /\ pc' = "for"
                   /\ oracle_calls' = oracle_calls
                   /\ ActualKey(prefix) \in DOMAIN response_data'
                   /\ response_data'[ActualKey(prefix)] =
                         IF Len(unique_champions') = 1
                         THEN PyStr(unique_champions'[1])
                         ELSE PyStr("NULL")
       /\ \A p \in Prefixes : Recorded(p) => oracle_calls'[p] = oracle_calls[p]]_vars

\* two chunks of round 0 chose the same candidate, which is the result
C5_Witness ==
    \E p \in Prefixes :
        /\ Entered(p) /\ Recorded(p)
        /\ possible_prefixes[prefix_idx - 1] = p
        /\ Len(chunk_champions) >= 2
        /\ final_size[p] = 1
        /\ Result(p) = PyStr(unique_champions[1])
        /\ oracle_calls[p] = Len(chunks)

OracleFailure(resp, offered) ==
    \/ resp.kind \in {"raise", "not_json", "not_object", "no_key"}
    \/ Fabricated(resp, offered)

\* C7: an oracle failure on one call only makes that call contribute no
\* winner: a chunk round goes on with its next chunk and unchanged champions,
\* a final call records "NULL" and the job goes on with the next category; no
\* exception leaves process_request_with_chunking.
C7_OracleFailureAbsorbed ==
    [][/\ pc' # "raised"
       /\ (ChunkCallStep /\ OracleFailure(llm_response', chunks[i])) =>
             /\ chunk_champions' = chunk_champions
             /\ new_chunk_champions' = new_chunk_champions
             /\ response_data' = response_data
             /\ i' = i + 1
             /\ pc' = pc
       /\ (FinalCallStep /\ OracleFailure(llm_response', unique_champions)) =>
             /\ ActualKey(prefix) \in DOMAIN response_data'
             /\ response_data'[ActualKey(prefix)] = PyStr("NULL")
             /\ prefix_idx' = prefix_idx + 1
             /\ pc' = "for"]_vars

\* the final call of the last category raised and the document was answered
C7_Witness ==
    /\ pc = "responded"
    /\ llm_response.kind = "raise"
    /\ "matcher_version" \in DOMAIN sent
    /\ \E p \in Prefixes :
          /\ final_size[p] >= 2
          /\ Result(p) = PyStr("NULL")
          /\ oracle_calls[p] >= 3

\* C8: the document returned holds matcher_version, holds <category>_actual
\* for every category whose two keys are in the request, and for no other.
C8_ResultDocumentKeys ==
    /\ \A p \in Prefixes : Recorded(p) => HasBothKeys(p)
    /\ pc \in {"returned", "responded"} =>
          /\ "matcher_version" \in DOMAIN response_data
          /\ response_data["matcher_version"] = PyStr(MATCHER_VERSION)
          /\ \A p \in Prefixes : HasBothKeys(p) => Recorded(p)
          /\ DOMAIN response_data \subseteq ActualKeys \cup {"matcher_version"}

\* a document was returned for a request with a category present, a category
\* absent and a category with one key of the two
C8_Witness ==
    /\ pc = "returned"
    /\ \E p, q, r \in Prefixes :
          /\ HasBothKeys(p) /\ Recorded(p)
          /\ ~request_data[q].has_requested /\ ~request_data[q].has_list
          /\ request_data[r].has_requested /\ ~request_data[r].has_list
          /\ ~Recorded(q) /\ ~Recorded(r)

CeilDiv(n, k) == (n + k - 1) \div k

RECURSIVE SumCeil(_, _)
\* ceil(sizes[1]/k) + ... + ceil(sizes[n]/k)
SumCeil(sizes, k) ==
    IF sizes = <<>> THEN 0
    ELSE CeilDiv(Head(sizes), k) + SumCeil(Tail(sizes), k)

\* the tournament of the category is over
Finished(p) == Entered(p) /\ Recorded(p)

\* C9 as stated: the oracle calls of a tournament are ceil(M/K) for round 0,
\* ceil(C_i/K) for every championship round, plus one final call.
C9_CallsWithFinalCallAlways ==
    \A p \in Prefixes :
        Finished(p) =>
            /\ Head(round_sizes[p]) = Len(NormalizeChoices(request_data[p]))
            /\ oracle_calls[p] = SumCeil(round_sizes[p], list_chunk_size) + 1

\* C9 amended: the final call is counted only when 2..K unique champions
\* remain after the chunk rounds.
C9_CallsWithFinalCallWhenNeeded ==
    \A p \in Prefixes :
        Finished(p) =>
            /\ Head(round_sizes[p]) = Len(NormalizeChoices(request_data[p]))
            /\ oracle_calls[p] =
                  SumCeil(round_sizes[p], list_chunk_size)
                  + (IF final_size[p] >= 2 THEN 1 ELSE 0)

\* five candidates in chunks of two: three calls, two calls, one final call
C9_Witness ==
    \E p \in Prefixes :
        /\ Finished(p)
        /\ list_chunk_size = 2
        /\ round_sizes[p] = <<5, 3>>
        /\ final_size[p] = 2
        /\ oracle_calls[p] = 6

\* C10: a request document without any category key is rejected by the front
\* end that received it: the matcher is not entered and no document is answered.
C10_EmptyRequestRejected ==
    (\A p \in Prefixes : ~request_data[p].has_requested /\ ~request_data[p].has_list) =>
        /\ pc \in {"received", "rejected"}
        /\ sent = EmptyDoc

\* C11: a request in which some category has a query but no candidate list, or
\* a candidate list but no query, is rejected before matching begins: no oracle
\* call is made for any category and no result document is answered.
C11_UnpairedKeyRejected ==
    (\E p \in Prefixes : request_data[p].has_requested # request_data[p].has_list) =>
        /\ pc \in {"received", "rejected"}
        /\ sent = EmptyDoc
        /\ \A p \in Prefixes : oracle_calls[p] = 0

(***************************************************************************)
(* Properties of the framed server.                                        *)
(***************************************************************************)
\* handle_client is inside its request loop
InSession ==
    at \in {"recv_prefix", "recv_payload", "invoke", "send_prefix", "send_payload"}

\* C12: the connection is released exactly once on every way out of the
\* request loop: client_socket.close() is never called while connection_active
\* holds, never twice, and when handle_client is left (by returning, or by an
\* exception that stops the server) it has been called once.
C12_ReleasedExactlyOnce ==
    /\ closes <= 1
    /\ connection_active => closes = 0
    /\ InSession => connection_active
    /\ at = "returned" => (~connection_active /\ closes = 1)
    /\ at = "stopped" => ~connection_active

\* a session that dispatched a number document, whose dispatch raised, has
\* returned with the connection released
C12_Witness ==
    /\ at = "returned"
    /\ loaded = <<EmptyObject, NumberDocument>>
    /\ dispatched = 2
    /\ Len(written) = 1
    /\ closes = 1

\* the session is at a frame boundary: about to read a length prefix, or over
AtFrameBoundary == at \in {"recv_prefix", "returned"}

\* C13 as stated: requests are handled strictly one after the other, and every
\* dispatched request gets exactly one response frame: whenever the session is
\* about to read a length prefix or is over, as many response frames have been
\* written as requests were dispatched.
C13_EveryDispatchAnswered ==
    AtFrameBoundary => Len(written) = dispatched

\* C13 amended: the session reads the prefix of a request only when the
\* response frame of every request dispatched before is written in full; a
\* dispatched request gets at most one response frame; it gets none only when
\* the dispatcher raised or a sendall failed, and then the session is over; the
\* k-th response frame answers the k-th request.
C13_SequentialAtMostOneResponse ==
    /\ Len(written) <= dispatched
    /\ dispatched <= Len(written) + 1
    /\ dispatched = Len(loaded) \/ dispatched + 1 = Len(loaded)
    /\ at \in {"recv_prefix", "recv_payload"} => Len(written) = dispatched
    /\ at \in {"invoke", "send_prefix", "send_payload"} => dispatched = Len(written) + 1
    /\ (at = "returned" /\ Len(written) < dispatched) =>
          \/ DispatchRaises(JsonLoads(loaded[Len(loaded)]))
          \/ peer_end # "idle"
    /\ \A k \in 1..Len(written) :
          IF JsonLoads(loaded[k]) = "job"
          THEN written[k] \in {MatchedBytes, NoMatchBytes}
          ELSE written[k] = VersionOnlyBytes

\* the second request of a session is being read after the first was answered
C13_Witness ==
    /\ at = "recv_payload"
    /\ dispatched = 1
    /\ written = <<MatchedBytes>>
    /\ Len(data_recv) > 0

\* the number four bytes spell, most significant byte first
BigEndian(b) == ((b[1] * 256 + b[2]) * 256 + b[3]) * 256 + b[4]

\* where the k-th frame of the byte stream w starts (bytes before it), k from 1;
\* a frame cut short by the end of the stream ends there
RECURSIVE FrameOffset(_, _)
FrameOffset(w, k) ==
    IF k = 1 THEN 0
    ELSE LET o == FrameOffset(w, k - 1)
         IN  IF o + 4 > Len(w) THEN Len(w)
             ELSE Min(Len(w), o + 4 + BigEndian(SubSeq(w, o + 1, o + 4)))

\* the payload of the k-th frame of w
FramePayload(w, k) ==
    SubSeq(w, FrameOffset(w, k) + 5, FrameOffset(w, k + 1))

\* C14: however the stream arrives in packets, the session reads exactly 4
\* prefix bytes and then exactly N payload bytes: the k-th payload handed to
\* json.loads is the N bytes after the k-th prefix, the bytes received so far
\* are the frames handed over plus the part of the next frame read so far, and
\* no byte beyond the frame being read is ever received.
C14_ExactFraming ==
    /\ \A k \in 1..Len(loaded) :
          /\ loaded[k] = FramePayload(wire, k)
          /\ Len(loaded[k]) = BigEndian(SubSeq(wire, FrameOffset(wire, k) + 1,
                                               FrameOffset(wire, k) + 4))
    /\ rd <= FrameOffset(wire, Len(loaded) + 2)
    /\ at \in {"recv_prefix", "invoke", "send_prefix", "send_payload"} =>
          rd = FrameOffset(wire, Len(loaded) + 1)
    /\ at = "recv_payload" =>
          /\ rd = FrameOffset(wire, Len(loaded) + 1) + 4 + Len(data_recv)
          /\ msglen = BigEndian(SubSeq(wire, rd - Len(data_recv) - 3,
                                       rd - Len(data_recv)))
          /\ data_recv = SubSeq(wire, rd - Len(data_recv) + 1, rd)
          /\ Len(data_recv) < msglen

\* the payload of a second frame has arrived in part, in a packet that ended
\* inside it, after the first frame was handed over whole
C14_Witness ==
    /\ at = "recv_payload"
    /\ loaded = <<EmptyObject>>
    /\ msglen = Len(JobDocument)
    /\ Len(data_recv) = 20
    /\ rd = 4 + Len(EmptyObject) + 4 + 20

\* the peer sent a length prefix in part, or in full with fewer payload bytes
\* than it declares, and closes: the frame being read will never be complete
PeerClosesMidFrame ==
    /\ peer_end = "close"
    /\ \/ at = "recv_prefix" /\ Len(wire) - rd \in 1..3
       \/ at = "recv_payload" /\ Len(wire) - rd < msglen - Len(data_recv)

\* a step of the session out of a recv
ReadStep == RecvPrefix \/ RecvPayload

\* the step ends the session with the connection released, dispatches nothing
\* and writes nothing
EndsUnanswered ==
    /\ at' = "returned"
    /\ ~connection_active'
    /\ closes' = 1
    /\ UNCHANGED <<loaded, dispatched, written, outbuf>>

\* the step receives more bytes of the payload, dispatches nothing and writes
\* nothing
ReadsOn ==
    /\ at' = "recv_payload"
    /\ rd' > rd
    /\ UNCHANGED <<loaded, dispatched, written, outbuf>>

\* C15: when the peer closes after a length prefix was received in part or in
\* full but before the declared payload is complete, the session does not hang:
\* its recv returns, and it returns with bytes still to come of the incomplete
\* payload or else ends the session with the connection released, without
\* dispatching the incomplete request and without writing a response frame.
C15_MidFrameCloseEndsSession ==
    PeerClosesMidFrame =>
        /\ ENABLED ReadStep
        /\ ~ENABLED (ReadStep /\ ~(IF at = "recv_payload" /\ rd < Len(wire)
                                    THEN ReadsOn ELSE EndsUnanswered))

\* a prefix of 10 and 5 payload bytes were received, the peer has closed
C15_Witness ==
    /\ at = "recv_payload"
    /\ peer_end = "close"
    /\ msglen = 10
    /\ Len(data_recv) = 5
    /\ rd = Len(wire)

\* the payload is a JSON object, the form of a job document
IsJobObject(data) == data \in {EmptyObject, JobDocument}

\* C16: a payload that cannot be parsed as the expected job document is not
\* dispatched and not answered: it is the last payload the session reads, and
\* the session is over with the connection released, as many requests
\* dispatched and as many response frames written as before that payload.
C16_UnparseablePayloadClosesSession ==
    \A k \in 1..Len(loaded) :
        ~IsJobObject(loaded[k]) =>
            /\ k = Len(loaded)
            /\ at = "returned"
            /\ closes = 1
            /\ dispatched = k - 1
            /\ Len(written) = k - 1

\* the peer has closed at a frame boundary: every byte it sent is received and
\* the session is about to read a length prefix
PeerClosedAtBoundary ==
    /\ at = "recv_prefix"
    /\ peer_end = "close"
    /\ rd = Len(wire)

\* C17: when the peer closes at a frame boundary the session ends gracefully:
\* its recv returns, the session is over with the connection released, nothing
\* is dispatched and no frame written by that step, and every request received
\* before the close was dispatched and answered.
C17_GracefulClose ==
    PeerClosedAtBoundary =>
        /\ ENABLED RecvPrefix
        /\ ~ENABLED (RecvPrefix /\ ~EndsUnanswered)
        /\ rd = FrameOffset(wire, Len(loaded) + 1)
        /\ dispatched = Len(loaded)
        /\ Len(written) = Len(loaded)

\* the peer closed after two requests, both answered
C17_Witness ==
    /\ PeerClosedAtBoundary
    /\ loaded = <<JobDocument, EmptyObject>>
    /\ written = <<NoMatchBytes, VersionOnlyBytes>>

\* C18: a session that ends, for whatever transport or document error, does
\* not end the server: once handle_client has returned run_matcher can go back
\* to accept() and cannot stop, at accept() with a client waiting it can take
\* that client, and the listening socket is closed only out of accept(),
\* never out of a session.
C18_ListenerSurvivesSession ==
    /\ at = "returned" =>
          /\ ENABLED NextAccept
          /\ ~ENABLED (SessionNext /\ at' = "stopped")
    /\ (at = "accept" /\ backlog > 0) => ENABLED AcceptConnection
    /\ at = "stopped" => NoSession

\* a session ended on a payload that is no JSON, with the next client waiting
C18_Witness ==
    /\ at = "returned"
    /\ backlog = 1
    /\ loaded = <<NotJson>>
    /\ dispatched = 0
    /\ closes = 1

\* C19: an oracle call that hangs in one session does not block the other
\* sessions: while the call is outstanding a client that has connected can be
\* accepted, without waiting for the call to return.
C19_HungOracleDoesNotBlockAccept ==
    (at = "invoke" /\ backlog > 0) => ENABLED AcceptConnection

\* p is the first bytes of q
IsPrefixOf(p, q) == Len(p) <= Len(q) /\ SubSeq(q, 1, Len(p)) = p

\* the bytes written after the last complete response frame
Unfinished == SubSeq(outbuf, FrameOffset(outbuf, Len(written) + 1) + 1, Len(outbuf))

\* C20: every response is one frame: decoded as the request frames are, the
\* bytes written give back the serialised result documents in order, each
\* after a 4-byte big-endian prefix equal to its length in bytes; nothing else
\* is written, except the first bytes of one more frame while it is being
\* written or when its sendall failed and the session ended.
C20_ResponseFraming ==
    /\ \A k \in 1..Len(written) :
          /\ FramePayload(outbuf, k) = written[k]
          /\ BigEndian(SubSeq(outbuf, FrameOffset(outbuf, k) + 1,
                              FrameOffset(outbuf, k) + 4)) = Len(written[k])
    /\ at \in {"recv_prefix", "recv_payload", "invoke", "send_prefix"} =>
          Unfinished = <<>>
    /\ at = "send_payload" =>
          /\ Len(Unfinished) = 4
          /\ BigEndian(Unfinished) = Len(response_bytes)
    /\ at = "returned" =>
          /\ Len(Unfinished) < 4 + Len(response_bytes) \/ Unfinished = <<>>
          /\ Len(Unfinished) >= 4 =>
                /\ BigEndian(SubSeq(Unfinished, 1, 4)) = Len(response_bytes)
                /\ IsPrefixOf(SubSeq(Unfinished, 5, Len(Unfinished)), response_bytes)
          /\ Len(Unfinished) < 4 => IsPrefixOf(Unfinished, <<0, 0, 0>>)

\* two response frames are written, of 49 and of 26 payload bytes
C20_Witness ==
    /\ at = "recv_prefix"
    /\ written = <<MatchedBytes, VersionOnlyBytes>>
    /\ Len(outbuf) = 4 + Len(MatchedBytes) + 4 + Len(VersionOnlyBytes)
    /\ SubSeq(outbuf, 1, 4) = <<0, 0, 0, 49>>

\* the category entered the tournament with exactly one candidate
SingleCandidate(p) ==
    /\ Entered(p)
    /\ Len(NormalizeChoices(request_data[p])) = 1

\* C23: for a candidate list of one element (a one-element list or a bare
\* string) the tournament makes at most one oracle call, and the recorded
\* result is that candidate or "NULL", whatever the oracle answers.
C23_SingleCandidateOneCall ==
    \A p \in Prefixes :
        SingleCandidate(p) =>
            /\ oracle_calls[p] <= 1
            /\ Recorded(p) =>
                  /\ oracle_calls[p] = 1
                  /\ Result(p) \in {PyStr(NormalizeChoices(request_data[p])[1]),
                                    PyStr("NULL")}

\* a bare string was the candidate list, and it was recorded after the one
\* call whose answer named it
C23_Witness ==
    \E p \in Prefixes :
        /\ SingleCandidate(p)
        /\ request_data[p].bare
        /\ oracle_calls[p] = 1
        /\ Recorded(p)
        /\ Result(p) = PyStr(request_data[p].items[1])

\* C25: every list offered to the oracle in one call - a chunk of round 0, a
\* chunk of a championship round, or the champions of the final call - holds
\* at least one and at most K candidates, K being the chunk size.
C25_OfferedListWithinChunkSize ==
    [][/\ ChunkCallStep =>
             /\ Len(chunks[i]) >= 1
             /\ Len(chunks[i]) <= list_chunk_size
       /\ FinalCallStep =>
             /\ Len(unique_champions) >= 1
             /\ Len(unique_champions) <= list_chunk_size]_vars

\* a category was offered a full chunk and a chunk of one candidate in round
\* 0, a full chunk in a championship round, and K champions in the final call
C25_Witness ==
    \E p \in Prefixes :
        /\ Finished(p)
        /\ list_chunk_size = 2
        /\ round_sizes[p] = <<5, 3>>
        /\ final_size[p] = list_chunk_size
        /\ llm_response.kind = "string"
        /\ Result(p) = PyStr(llm_response.value)

RECURSIVE Concat(_)
\* the chunks laid end to end
Concat(cs) == IF cs = <<>> THEN <<>> ELSE Head(cs) \o Concat(Tail(cs))

\* the sequence that the round being played has cut into chunks
RoundSequence ==
    IF pc = "round0" THEN NormalizeChoices(request_data[prefix])
    ELSE unique_champions

\* C26: in round 0 and in every championship round the chunks are a
\* contiguous left-to-right partition of the round's candidate sequence: laid
\* end to end they give the sequence back, every chunk but the last holds
\* exactly K candidates, and the last holds between 1 and K.
C26_ChunksPartitionTheRound ==
    pc \in {"round0", "championship"} =>
        /\ Concat(chunks) = RoundSequence
        /\ chunks # <<>>
        /\ \A c \in 1..(Len(chunks) - 1) : Len(chunks[c]) = list_chunk_size
        /\ Len(chunks[Len(chunks)]) \in 1..list_chunk_size

\* a championship round over three champions, cut into a chunk of two and a
\* chunk of one, after a round 0 over five candidates
C26_Witness ==
    /\ pc = "championship"
    /\ list_chunk_size = 2
    /\ round_sizes[prefix] = <<5, 3>>
    /\ Len(chunks) = 2
    /\ Len(chunks[2]) = 1
    /\ i = 2

(***************************************************************************)
(* The replay.  process_request_with_chunking is called twice in the same  *)
(* process.  The oracle answers the calls of the categories in `kept` as   *)
(* a function of the category and of the list offered: its answer to a     *)
(* list is chosen when the list is first offered and is the same ever      *)
(* after.  Run 2 has the request of run 1 for the categories in `kept`;    *)
(* the other categories of run 2 have any pair and any oracle.             *)
(***************************************************************************)
\* the category the replay plays with the long lists
Watched == "binding_molecule"

WatchedPairs ==
    {Pair(TRUE, "q", TRUE, FALSE, Cycle(n)) : n \in 1..MaxLen}
    \cup {Pair(TRUE, "q", TRUE, TRUE, <<"a">>)}

\* the pairs of the categories played before and after it
OtherPairs == {AbsentPair, Pair(TRUE, "q", TRUE, FALSE, <<"b">>)}

ReplayRequests ==
    {req \in [Prefixes -> WatchedPairs \cup OtherPairs] :
        /\ req[Watched] \in WatchedPairs
        /\ \A p \in Prefixes \ {Watched} : req[p] \in OtherPairs
        /\ \E p \in Prefixes \ {Watched} : req[p] = AbsentPair}

\* what the oracle of the replay can answer to a call of the watched
\* category: a candidate offered, a value that was not offered, null, text
\* that is not JSON, or the call raises; to a call of another category it
\* answers a candidate offered or the call raises
ReplayResponses(p, offered) ==
    IF p = Watched
    THEN {[kind |-> "string", value |-> v] : v \in Elems(offered) \cup {"zz"}}
         \cup [kind : {"null", "not_json", "raise"}, value : {""}]
    ELSE {[kind |-> "string", value |-> v] : v \in Elems(offered)}
         \cup [kind : {"raise"}, value : {""}]

\* the answers the oracle can give to the call of category p over `offered`
OracleAnswers(p, offered) ==
    IF p \in kept /\ <<p, offered>> \in DOMAIN memo
    THEN {memo[<<p, offered>>]}
    ELSE ReplayResponses(p, offered)

\* the call is logged, and its answer is the oracle's answer to that list
\* from now on
Asked(offered, final, resp) ==
    /\ calls' = Append(calls,
                       [prefix |-> prefix,
                        round |-> Len(round_sizes[prefix]) - (IF final THEN 0 ELSE 1),
                        final |-> final,
                        offered |-> offered,
                        resp |-> resp])
    /\ memo' = IF prefix \in kept
               THEN [k \in DOMAIN memo \cup {<<prefix, offered>>} |->
                        IF k = <<prefix, offered>> THEN resp ELSE memo[k]]
               ELSE memo

ReplayInit ==
    /\ frontend = "framed"
    /\ request_data \in ReplayRequests
    /\ list_chunk_size \in 1..MaxK
    /\ pc = "received"
    /\ prefix_idx = 1
    /\ chunks = <<>>
    /\ i = 1
    /\ chunk_champions = <<>>
    /\ new_chunk_champions = <<>>
    /\ unique_champions = <<>>
    /\ final_answer = PyStr("NULL")
    /\ llm_response = NoResponse
    /\ response_data = EmptyDoc
    /\ sent = EmptyDoc
    /\ oracle_calls = [p \in Prefixes |-> 0]
    /\ round_sizes = [p \in Prefixes |-> <<>>]
    /\ final_size = [p \in Prefixes |-> -1]
    /\ Listening
    /\ NoRest
    /\ run = 1
    /\ kept \in {Prefixes, {Watched}}
    /\ memo = <<>>
    /\ calls = <<>>
    /\ first = <<>>

ReplayReceive ==
    /\ DoReceive
    /\ UNCHANGED <<replayVars, sessionVars, restVars>>

ReplayBeginPrefix ==
    /\ DoBeginPrefix
    /\ UNCHANGED <<replayVars, sessionVars, restVars>>

ReplayRound0Call ==
    /\ pc = "round0"
    /\ i <= Len(chunks)
    /\ \E resp \in OracleAnswers(prefix, chunks[i]) :
         /\ DoRound0Call(resp)
         /\ Asked(chunks[i], FALSE, resp)
    /\ UNCHANGED <<run, kept, first, sessionVars, restVars>>

ReplayEndRound0 ==
    /\ DoEndRound0
    /\ UNCHANGED <<replayVars, sessionVars, restVars>>

ReplayChampionshipCall ==
    /\ pc = "championship"
    /\ i <= Len(chunks)
    /\ \E resp \in OracleAnswers(prefix, chunks[i]) :
         /\ DoChampionshipCall(resp)
         /\ Asked(chunks[i], FALSE, resp)
    /\ UNCHANGED <<run, kept, first, sessionVars, restVars>>

ReplayEndChampionshipRound ==
    /\ DoEndChampionshipRound
    /\ UNCHANGED <<replayVars, sessionVars, restVars>>

ReplayFinalCall ==
    /\ pc = "final"
    /\ \E resp \in OracleAnswers(prefix, unique_champions) :
         /\ DoFinalCall(resp)
         /\ Asked(unique_champions, TRUE, resp)
    /\ UNCHANGED <<run, kept, first, sessionVars, restVars>>

ReplayReturn ==
    /\ DoReturn
    /\ UNCHANGED <<replayVars, sessionVars, restVars>>

ReplayRespond ==
    /\ DoRespond
    /\ UNCHANGED <<replayVars, sessionVars, restVars>>

\* the framed session has answered; the request is sent again, to the framed
\* server or to the REST endpoint, and the function runs with fresh locals
Rerun ==
    /\ pc = "responded"
    /\ run = 1
    /\ run' = 2
    /\ first' = [request |-> request_data, calls |-> calls,
                 document |-> response_data, answer |-> sent]
    /\ calls' = <<>>
    /\ request_data' \in {req \in ReplayRequests : \A p \in kept : req[p] = request_data[p]}
    /\ frontend' \in {"framed", "rest"}
    /\ sent' = EmptyDoc
    /\ pc' = "received"
    /\ prefix_idx' = 1
    /\ chunks' = <<>>
    /\ i' = 1
    /\ chunk_champions' = <<>>
    /\ new_chunk_champions' = <<>>
    /\ unique_champions' = <<>>
    /\ final_answer' = PyStr("NULL")
    /\ llm_response' = NoResponse
    /\ response_data' = EmptyDoc
    /\ oracle_calls' = [p \in Prefixes |-> 0]
    /\ round_sizes' = [p \in Prefixes |-> <<>>]
    /\ final_size' = [p \in Prefixes |-> -1]
    /\ UNCHANGED <<list_chunk_size, kept, memo, sessionVars, restVars>>

ReplayNext ==
    \/ ReplayReceive
    \/ ReplayBeginPrefix
    \/ ReplayRound0Call
    \/ ReplayEndRound0
    \/ ReplayChampionshipCall
    \/ ReplayEndChampionshipRound
    \/ ReplayFinalCall
    \/ ReplayReturn
    \/ ReplayRespond
    \/ Rerun

ReplaySpec == ReplayInit /\ [][ReplayNext]_vars

\* C21: calling process_request_with_chunking again with the same request -
\* same query, same candidate order, same chunk size - against an oracle that
\* gives the same answer whenever it is offered the same list makes the same
\* oracle calls in the same order and returns the same result document.
C21_ReplayIsDeterministic ==
    (run = 2 /\ kept = Prefixes) =>
        /\ request_data = first.request
        /\ IsPrefixOf(calls, first.calls)
        /\ pc # "raised"
        /\ pc = "returned" =>
              /\ calls = first.calls
              /\ response_data = first.document

\* the second run of a tournament with a championship round and a final call
\* has returned, with a candidate as the result
C21_Witness ==
    /\ run = 2
    /\ kept = Prefixes
    /\ pc = "returned"
    /\ Len(round_sizes[Watched]) >= 2
    /\ final_size[Watched] >= 2
    /\ Len(calls) >= 6
    /\ Result(Watched).s \in Candidates(Watched)
    /\ \E k \in 1..Len(calls) : calls[k].resp.kind = "raise"

IsWatchedCall(c) == c.prefix = Watched

\* the calls of the log that were made for the watched category
WatchedCalls(log) == SelectSeq(log, IsWatchedCall)

\* C22: the result of a category and the lists offered to the oracle for it
\* depend only on that category's query and list and on the oracle's answers
\* to its calls: they are the same when the pair of another category is
\* added, removed or changed, and when the oracle calls of another category
\* fail.
C22_CategoriesAreIndependent ==
    (run = 2 /\ kept = {Watched}) =>
        /\ request_data[Watched] = first.request[Watched]
        /\ IsPrefixOf(WatchedCalls(calls), WatchedCalls(first.calls))
        /\ pc # "raised"
        /\ pc = "returned" =>
              /\ WatchedCalls(calls) = WatchedCalls(first.calls)
              /\ Result(Watched) = first.document[ActualKey(Watched)]

\* run 2 has returned; the category played before the watched one was absent
\* in run 1 and its one oracle call raised in run 2, the category played after
\* it was played in run 1 only, and the watched result is a candidate found
\* after a championship round and a final call
C22_Witness ==
    /\ run = 2
    /\ kept = {Watched}
    /\ pc = "returned"
    /\ first.request["cell_type"] = AbsentPair
    /\ first.request["species"] # AbsentPair
    /\ request_data["species"] = AbsentPair
    /\ calls[1].prefix = "cell_type"
    /\ calls[1].resp.kind = "raise"
    /\ Len(round_sizes[Watched]) >= 2
    /\ final_size[Watched] >= 2
    /\ Result(Watched).s \in Candidates(Watched)

\* the winners of the round that is ending, in the order their chunks were
\* played
RoundWinners == IF pc = "round0" THEN chunk_champions ELSE new_chunk_champions

\* the same winners with their chunks played in any other order
Reorderings(w) == {[j \in 1..Len(w) |-> w[o[j]]] : o \in Orders(1..Len(w))}

\* C28: the sequence the next round is cut from (and the list of the final
\* call) is the ascending, duplicate-free sequence of the round's winners, so
\* it depends only on which candidates won: had the chunks been played in any
\* other order, each with the same answer, the next round's chunks and the
\* result decided without a final call would be the same.
C28_NextRoundIgnoresChunkOrder ==
    [][EndRoundStep =>
          /\ unique_champions' = SortedList(Elems(RoundWinners))
          /\ \A q \in Reorderings(RoundWinners) :
                \A u \in UniqueChampions(q) :
                   /\ u = unique_champions'
                   /\ pc' = "championship" => chunks' = Chunks(u, list_chunk_size)
                   /\ pc' = "for" => response_data'[ActualKey(prefix)] = DirectAnswer(u)]_vars

\* five chunks of one candidate gave the winners c, b, a, c, b, and the
\* championship round is played over a, b, c
C28_Witness ==
    /\ pc = "championship"
    /\ list_chunk_size = 1
    /\ chunk_champions = <<"c", "b", "a", "c", "b">>
    /\ unique_champions = <<"a", "b", "c">>
    /\ chunks = <<<<"a">>, <<"b">>, <<"c">>>>
    /\ i = 1
    /\ round_sizes[prefix] = <<5, 3>>

\* the positions of the log that hold the calls of category p in round r
CallsOfRound(p, r) ==
    {k \in 1..Len(calls) : calls[k].prefix = p /\ calls[k].round = r}

\* the oracle answered call k with a candidate of the list it was offered
NamedOffered(k) ==
    /\ calls[k].resp.kind = "string"
    /\ calls[k].resp.value \in Elems(calls[k].offered)

\* the candidates the oracle chose in the chunk calls of round r of category p
LogChampions(p, r) ==
    {calls[k].resp.value : k \in {j \in CallsOfRound(p, r) :
                                     ~calls[j].final /\ NamedOffered(j)}}

\* the candidates offered in the calls of round r of category p
LogOffered(p, r) == UNION {Elems(calls[k].offered) : k \in CallsOfRound(p, r)}

\* the chunk rounds of category p that were played to the end
RoundsPlayed(p) ==
    {r \in 0..(Len(round_sizes[p]) - 1) :
        r < Len(round_sizes[p]) - 1 \/ Recorded(p) \/ (pc = "final" /\ p = prefix)}

\* C27: a championship round offers exactly the unique champions of the round
\* before it; the champions of a round are candidates of that round; and a
\* candidate that was not a champion of a round is offered in no later call
\* and is never the result.
C27_OnlyChampionsGoOn ==
    \A p \in Prefixes :
        /\ \A r \in RoundsPlayed(p) :
              /\ LogChampions(p, r) \subseteq LogOffered(p, r)
              /\ \A k \in 1..Len(calls) :
                    (calls[k].prefix = p /\ calls[k].round > r) =>
                        Elems(calls[k].offered) \subseteq LogChampions(p, r)
              /\ (r + 1 \in RoundsPlayed(p)) =>
                    LogOffered(p, r + 1) = LogChampions(p, r)
              /\ (Recorded(p) /\ Result(p) # PyStr("NULL")) =>
                    Result(p).s \in LogChampions(p, r)
        /\ \A k \in 1..Len(calls) :
              (calls[k].prefix = p /\ calls[k].final) =>
                  Elems(calls[k].offered) = LogChampions(p, calls[k].round - 1)
        /\ (pc \in {"championship", "final"} /\ p = prefix) =>
              Elems(unique_champions) =
                 LogChampions(p, Len(round_sizes[p]) - (IF pc = "final" THEN 1 ELSE 2))

\* the result is a champion of round 0 and of the championship round, in
\* which a candidate that had won its chunk in round 0 was not chosen again
C27_Witness ==
    /\ pc = "returned"
    /\ RoundsPlayed(Watched) = {0, 1}
    /\ LogChampions(Watched, 0) = {"a", "b", "c"}
    /\ LogChampions(Watched, 1) = {"a", "c"}
    /\ LogOffered(Watched, 2) = {"a", "c"}
    /\ Result(Watched) = PyStr("a")

\* the oracle answered call k with the candidate v, which the call offered
Chose(k, v) == NamedOffered(k) /\ calls[k].resp.value = v

\* C29: a result other than "NULL" was returned by the oracle as the winner
\* of a call that offered it in round 0 and in every championship round
\* played, and in the final call when one was made.
C29_ResultWonEveryRound ==
    \A p \in Prefixes :
        (Recorded(p) /\ Result(p).t = "str" /\ Result(p) # PyStr("NULL")) =>
            /\ \A r \in 0..(Len(round_sizes[p]) - 1) :
                  \E k \in CallsOfRound(p, r) : ~calls[k].final /\ Chose(k, Result(p).s)
            /\ \A k \in 1..Len(calls) :
                  (calls[k].prefix = p /\ calls[k].final) => Chose(k, Result(p).s)

\* the result won a chunk of round 0, a chunk of the championship round and
\* the final call; the call of the category played before it raised
C29_Witness ==
    /\ pc = "returned"
    /\ Len(round_sizes[Watched]) = 2
    /\ Result(Watched).t = "str"
    /\ Result(Watched) # PyStr("NULL")
    /\ \E k \in 1..Len(calls) :
          calls[k].prefix = Watched /\ calls[k].final /\ Chose(k, Result(Watched).s)
    /\ calls[1].prefix # Watched
    /\ calls[1].resp.kind = "raise"

\* the lists offered in the chunk calls of round r of category p, in the
\* order of the calls
RoundOffers(p, r) ==
    LET InRound(c) == c.prefix = p /\ c.round = r /\ ~c.final
        cs == SelectSeq(calls, InRound)
    IN [k \in 1..Len(cs) |-> cs[k].offered]

\* the chunks of round r of category p: round 0 cuts the candidate list,
\* a championship round the champions of the round before
RoundChunks(p, r) ==
    IF r = 0 THEN Chunks(NormalizeChoices(request_data[p]), list_chunk_size)
    ELSE Chunks(SortedList(LogChampions(p, r - 1)), list_chunk_size)

\* C30: in round 0 and in every championship round each chunk is submitted to
\* the oracle exactly once, in order - also when the call raises, declines or
\* names a value that was not offered: a failed call is not retried and no
\* chunk is passed over.
C30_EachChunkOfferedOnce ==
    \A p \in Prefixes :
        \A r \in 0..(Len(round_sizes[p]) - 1) :
            IF r \in RoundsPlayed(p)
            THEN RoundOffers(p, r) = RoundChunks(p, r)
            ELSE /\ pc \in {"round0", "championship"}
                 /\ p = prefix
                 /\ chunks = RoundChunks(p, r)
                 /\ RoundOffers(p, r) = SubSeq(chunks, 1, i - 1)

\* a championship round of two chunks was played to the end after a round 0
\* of three chunks; one of its calls raised and the other named a value that
\* was not offered
C30_Witness ==
    /\ RoundsPlayed(Watched) = {0, 1}
    /\ Len(RoundOffers(Watched, 0)) = 3
    /\ Len(RoundOffers(Watched, 1)) = 2
    /\ \E k \in CallsOfRound(Watched, 1) : calls[k].resp.kind = "raise"
    /\ \E k \in CallsOfRound(Watched, 1) : calls[k].resp.value = "zz"

(***************************************************************************)
(* The REST service.  perform_match handles POST /match: the request is    *)
(* validated as a MatcherRequest, process_request_with_chunking runs       *)
(* inside `try`, `except Exception` raises MatcherLogicError, which        *)
(* matcher_logic_exception_handler answers with status 500, and            *)
(* the MatcherResponse built from response_data is returned otherwise.    *)
(***************************************************************************)
\* requests the service handles one after the other
MaxRequests == 2

\* what get_chain_from_prefix can raise while it builds the chain
ChainErrors == {"ValueError", "ConnectionError"}

\* PerformMatchCatches with `except ValueError`
PerformMatchCatchesValueError(e) == e = "ValueError"

\* `except Exception as e` in perform_match
PerformMatchCatches(e) == e \in {"Exception", "ValueError", "ConnectionError"}

\* content of the JSONResponse of matcher_logic_exception_handler
ErrorContent(e) ==
    [error |-> "Matcher Server Internal Error",
     detail |-> <<"An unexpected error occurred in the matching engine: ", e>>]

\* the response of the framework to an exception that no handler took
ServerError == [text |-> "Internal Server Error"]

\* content of the response to a request that MatcherRequest rejected
ValidationError == [detail |-> "validation"]

\* the exception that left process_request_with_chunking
Raised == IF raised_exc # "none" THEN raised_exc ELSE RaisedBy(llm_response)

RestPairs ==
    {Pair(TRUE, "q", TRUE, FALSE, Cycle(n)) : n \in 0..MaxShort}
    \cup {Pair(TRUE, "q", FALSE, FALSE, <<>>)}

RestRequests ==
    {[p \in Prefixes |-> IF p = one THEN pair ELSE AbsentPair] :
        one \in {"cell_type", "species"}, pair \in RestPairs}
    \cup {[p \in Prefixes |-> IF p = "binding_molecule" THEN AbsentPair
                             ELSE Pair(TRUE, "q", TRUE, FALSE, Cycle(1))]}

\* the locals of process_request_with_chunking before it is called
FreshCall ==
    /\ pc' = "received"
    /\ prefix_idx' = 1
    /\ chunks' = <<>>
    /\ i' = 1
    /\ chunk_champions' = <<>>
    /\ new_chunk_champions' = <<>>
    /\ unique_champions' = <<>>
    /\ final_answer' = PyStr("NULL")
    /\ llm_response' = NoResponse
    /\ response_data' = EmptyDoc
    /\ oracle_calls' = [p \in Prefixes |-> 0]
    /\ round_sizes' = [p \in Prefixes |-> <<>>]
    /\ final_size' = [p \in Prefixes |-> -1]

RestInit ==
    /\ frontend = "rest"
    /\ request_data \in RestRequests
    /\ list_chunk_size \in 1..MaxK
    /\ pc = "received"
    /\ prefix_idx = 1
    /\ chunks = <<>>
    /\ i = 1
    /\ chunk_champions = <<>>
    /\ new_chunk_champions = <<>>
    /\ unique_champions = <<>>
    /\ final_answer = PyStr("NULL")
    /\ llm_response = NoResponse
    /\ response_data = EmptyDoc
    /\ sent = EmptyDoc
    /\ oracle_calls = [p \in Prefixes |-> 0]
    /\ round_sizes = [p \in Prefixes |-> <<>>]
    /\ final_size = [p \in Prefixes |-> -1]
    /\ Listening
    /\ NoReplay
    /\ NoRest

\* the request body is validated; a request MatcherRequest rejects is
\* answered by the framework and perform_match is not called
RestReceive ==
    /\ pc = "received"
    /\ IF RestValid(request_data)
       THEN /\ pc' = "for"
            /\ UNCHANGED <<status, content>>
       ELSE /\ pc' = "rejected"
            /\ status' = 422
            /\ content' = ValidationError
    /\ UNCHANGED <<frontend, request_data, list_chunk_size, prefix_idx, chunks, i,
                   chunk_champions, new_chunk_champions, unique_champions,
                   final_answer, llm_response, response_data, sent, oracle_calls,
                   round_sizes, final_size, raised_exc, answered>>
    /\ UNCHANGED <<sessionVars, replayVars>>

RestBeginPrefix == DoBeginPrefix /\ UNCHANGED <<sessionVars, replayVars, restVars>>

\* get_chain_from_prefix, called outside every try of
\* process_request_with_chunking, raises: the exception leaves the function
GetChainRaises ==
    /\ pc = "for"
    /\ prefix_idx <= Len(possible_prefixes)
    /\ PairPresent(request_data[prefix])
    /\ ~SkipPair(request_data[prefix])
    /\ raised_exc' \in ChainErrors
    /\ pc' = "raised"
    /\ UNCHANGED <<frontend, request_data, list_chunk_size, prefix_idx, chunks, i,
                   chunk_champions, new_chunk_champions, unique_champions,
                   final_answer, llm_response, response_data, sent, oracle_calls,
                   round_sizes, final_size, status, content, answered>>
    /\ UNCHANGED <<sessionVars, replayVars>>

RestRound0Call ==
    /\ \E resp \in Responses : DoRound0Call(resp)
    /\ UNCHANGED <<sessionVars, replayVars, restVars>>

RestEndRound0 == DoEndRound0 /\ UNCHANGED <<sessionVars, replayVars, restVars>>

RestChampionshipCall ==
    /\ \E resp \in Responses : DoChampionshipCall(resp)
    /\ UNCHANGED <<sessionVars, replayVars, restVars>>

RestEndChampionshipRound ==
    DoEndChampionshipRound /\ UNCHANGED <<sessionVars, replayVars, restVars>>

RestFinalCall ==
    /\ \E resp \in Responses : DoFinalCall(resp)
    /\ UNCHANGED <<sessionVars, replayVars, restVars>>

RestReturn == DoReturn /\ UNCHANGED <<sessionVars, replayVars, restVars>>

\* `return MatcherResponse(**response_data)`: the 200 response
RestRespond ==
    /\ pc = "returned"
    /\ pc' = "responded"
    /\ sent' = MatcherResponse(response_data)
    /\ status' = 200
    /\ content' = sent'
    /\ UNCHANGED <<frontend, request_data, list_chunk_size, prefix_idx, chunks, i,
                   chunk_champions, new_chunk_champions, unique_champions,
                   final_answer, llm_response, response_data, oracle_calls,
                   round_sizes, final_size, raised_exc, answered>>
    /\ UNCHANGED <<sessionVars, replayVars>>

\* the exception reaches perform_match: `except Exception` raises
\* MatcherLogicError and matcher_logic_exception_handler answers it; an
\* exception the clause does not take is answered by the framework
RestFails ==
    /\ pc = "raised"
    /\ pc' = "responded"
    /\ status' = 500
    /\ content' = IF PerformMatchCatches(Raised) THEN ErrorContent(Raised)
                  ELSE ServerError
    /\ UNCHANGED <<frontend, request_data, list_chunk_size, prefix_idx, chunks, i,
                   chunk_champions, new_chunk_champions, unique_champions,
                   final_answer, llm_response, response_data, sent, oracle_calls,
                   round_sizes, final_size, raised_exc, answered>>
    /\ UNCHANGED <<sessionVars, replayVars>>

\* the service takes the next request
NextRequest ==
    /\ pc \in {"responded", "rejected"}
    /\ Len(answered) < MaxRequests - 1
    /\ answered' = Append(answered, status)
    /\ request_data' \in RestRequests
    /\ FreshCall
    /\ sent' = EmptyDoc
    /\ status' = 0
    /\ content' = EmptyDoc
    /\ raised_exc' = "none"
    /\ UNCHANGED <<frontend, list_chunk_size>>
    /\ UNCHANGED <<sessionVars, replayVars>>

RestNext ==
    \/ RestReceive
    \/ RestBeginPrefix
    \/ GetChainRaises
    \/ RestRound0Call
    \/ RestEndRound0
    \/ RestChampionshipCall
    \/ RestEndChampionshipRound
    \/ RestFinalCall
    \/ RestReturn
    \/ RestRespond
    \/ RestFails
    \/ NextRequest

RestSpec == RestInit /\ [][RestNext]_vars

\* C24: on the REST interface an exception raised by
\* process_request_with_chunking during POST /match is answered with the
\* structured 500 error of matcher_logic_exception_handler, for that request
\* only: no MatcherResponse is returned for it, and the service takes the
\* requests that follow.
C24_DispatcherExceptionBecomes500 ==
    /\ pc = "raised" =>
          ENABLED (RestFails /\ status' = 500 /\ content' = ErrorContent(Raised))
    /\ (pc = "responded" /\ raised_exc # "none") =>
          /\ status = 500
          /\ content = ErrorContent(raised_exc)
          /\ sent = EmptyDoc
          /\ Len(answered) < MaxRequests - 1 => ENABLED NextRequest
    /\ status = 500 => (pc = "responded" /\ raised_exc # "none")
    /\ status = 200 =>
          /\ raised_exc = "none"
          /\ content = MatcherResponse(response_data)

\* the request before this one was answered 500; this one came through a
\* round 0 of two chunks and is answered 200 with a candidate
C24_Witness ==
    /\ answered = <<500>>
    /\ pc = "responded"
    /\ status = 200
    /\ round_sizes["species"] = <<3>>
    /\ content["species_actual"].s \in Candidates("species")

RECURSIVE CeilLog(_, _)
\* ceil(log_k(m)) for k >= 2 and m >= 1: the least r with k^r >= m
CeilLog(k, m) == IF m <= 1 THEN 0 ELSE 1 + CeilLog(k, CeilDiv(m, k))

\* the rounds of category p in which the oracle was called: chunk rounds and
\* the final round
LogRounds(p) == {calls[k].round : k \in {j \in 1..Len(calls) : calls[j].prefix = p}}

RECURSIVE SumLen(_)
SumLen(ls) == IF ls = <<>> THEN 0 ELSE Len(Head(ls)) + SumLen(Tail(ls))

\* C31: for a chunk size K >= 2, a chunk round over n candidates leaves at
\* most ceil(n/K) unique champions, and a tournament over M >= 1 candidates
\* calls the oracle in at most max(1, ceil(log_K(M))) rounds - chunk rounds
\* plus the final round when it is played - whatever the oracle answers.
C31_RoundsAreLogarithmic ==
    list_chunk_size >= 2 =>
        \A p \in Prefixes :
            Entered(p) =>
                /\ \A r \in 0..(Len(round_sizes[p]) - 1) :
                      /\ SumLen(RoundOffers(p, r)) <= round_sizes[p][r + 1]
                      /\ Cardinality(LogChampions(p, r)) <=
                            CeilDiv(SumLen(RoundOffers(p, r)), list_chunk_size)
                      /\ r \in RoundsPlayed(p) =>
                            SumLen(RoundOffers(p, r)) = round_sizes[p][r + 1]
                /\ Cardinality(LogRounds(p)) <=
                      LET r == CeilLog(list_chunk_size,
                                       Len(NormalizeChoices(request_data[p])))
                      IN IF r >= 1 THEN r ELSE 1

\* five candidates and K = 2: a round 0 of three chunks left three champions,
\* a championship round of two chunks left two, and the final round was
\* played - three rounds, which is ceil(log_2(5))
C31_Witness ==
    /\ pc = "returned"
    /\ list_chunk_size = 2
    /\ Len(NormalizeChoices(request_data[Watched])) = 5
    /\ Cardinality(LogChampions(Watched, 0)) = 3
    /\ Cardinality(LogChampions(Watched, 1)) = 2
    /\ LogRounds(Watched) = {0, 1, 2}
    /\ CeilLog(2, 5) = 3


\* the lists offered to the oracle, call after call
Offers(log) == [k \in 1..Len(log) |-> <<log[k].prefix, log[k].offered>>]

\* C32: a request both front ends accept, answered by an oracle that gives
\* the same answers, gets from the REST endpoint the matcher_version and the
\* <category>_actual of every category whose pair is in the request that the
\* framed session sent, and the function makes the same oracle calls with
\* the same offered lists under both.
C32_FrontEndsAgree ==
    (run = 2 /\ kept = Prefixes /\ frontend = "rest" /\ RestValid(first.request)) =>
        /\ pc # "rejected"
        /\ pc # "raised"
        /\ IsPrefixOf(Offers(calls), Offers(first.calls))
        /\ pc = "responded" =>
              /\ Offers(calls) = Offers(first.calls)
              /\ "matcher_version" \in DOMAIN sent \cap DOMAIN first.answer
              /\ sent["matcher_version"] = first.answer["matcher_version"]
              /\ \A p \in Prefixes :
                    PairPresent(first.request[p]) =>
                        /\ ActualKey(p) \in DOMAIN sent \cap DOMAIN first.answer
                        /\ sent[ActualKey(p)] = first.answer[ActualKey(p)]

\* the REST endpoint has answered a request of two categories the framed
\* session answered before, after a tournament with a championship round
\* whose final call found no match
C32_Witness ==
    /\ run = 2
    /\ kept = Prefixes
    /\ frontend = "rest"
    /\ pc = "responded"
    /\ Cardinality({p \in Prefixes : PairPresent(first.request[p])}) = 2
    /\ Len(round_sizes[Watched]) >= 2
    /\ Len(calls) >= 5
    /\ sent[ActualKey(Watched)] = PyStr("NULL")
    /\ \E p \in Prefixes \ {Watched} : sent[ActualKey(p)] = PyStr("b")


\* C33: the framed server serves one connection at a time. accept() takes a
\* connection only when run_matcher is at accept() with no session active,
\* run_matcher is back at accept() only from a handle_client that has
\* returned with its session over, and while the oracle call of a request is
\* in flight no other request is dispatched and no connection is accepted:
\* connections that arrive meanwhile wait.
C33_OneConnectionAtATime ==
    [][/\ backlog' < backlog =>
             /\ at = "accept"
             /\ ~connection_active
             /\ at' = "recv_prefix"
             /\ connection_active'
       /\ (at' = "accept" /\ at # "accept") => (at = "returned" /\ ~connection_active)
       /\ at = "invoke" =>
             /\ connection_active
             /\ at' \in {"invoke", "send_prefix"}
             /\ dispatched' = dispatched
             /\ loaded' = loaded
             /\ backlog' >= backlog]_vars

\* a client is waiting to be accepted while the oracle call of the second
\* request of the active session is in flight
C33_Witness ==
    /\ at = "invoke"
    /\ connection_active
    /\ backlog > 0
    /\ dispatched = 2


\* what the result document says of category p, or what was sent of it
IsStringResult(v, p) ==
    /\ v.t = "str"
    /\ v.s \in Candidates(p) \cup {"NULL"}

\* C34: the two outcomes without a match are told apart in the result
\* document and in what the front end sends: a category that entered the
\* tournament (query not empty, list not empty) is recorded as a string, a
\* candidate of its list or "NULL", never as null; a category passed over for
\* an empty query or an empty list is recorded as null, never as "NULL".
C34_NoResultOutcomesDistinct ==
    \A p \in Prefixes :
        /\ (Recorded(p) /\ Entered(p)) =>
              /\ IsStringResult(Result(p), p)
              /\ Result(p) # PyNone
        /\ (Recorded(p) /\ HasBothKeys(p) /\ EmptyQueryOrList(p)) =>
              /\ Result(p) = PyNone
              /\ Result(p) # PyStr("NULL")
        /\ (pc = "responded" /\ HasBothKeys(p)) =>
              /\ ActualKey(p) \in DOMAIN sent
              /\ Entered(p) => IsStringResult(sent[ActualKey(p)], p)
              /\ EmptyQueryOrList(p) => sent[ActualKey(p)] = PyNone

\* the document sent holds "NULL" for a category whose tournament found no
\* champion, a candidate for another and null for one with an empty query
C34_Witness ==
    /\ pc = "responded"
    /\ \E p, q, r \in Prefixes :
          /\ Entered(p) /\ sent[ActualKey(p)] = PyStr("NULL")
          /\ oracle_calls[p] >= 1
          /\ Entered(q) /\ sent[ActualKey(q)].s \in Candidates(q)
          /\ HasBothKeys(r) /\ request_data[r].requested = ""
          /\ sent[ActualKey(r)] = PyNone

=============================================================================
